---- MODULE Spec2Model ----
(***************************************************************************)
(* Verification model of the Arka Intelligence export scripts.             *)
(*                                                                         *)
(* Part 1: the GitHub export (sync-github.ts): the record classifier       *)
(* (isBot), the batch detail resolver (fetchPrDetailsBatch), the export    *)
(* functions and the unit loop of main.                                    *)
(*                                                                         *)
(* Conventions                                                             *)
(*   - a nullable JavaScript value is Null or Some(v);                     *)
(*   - a JavaScript string that the code inspects character by character   *)
(*     (a username) is a TLA+ string whose characters are given by Chars;  *)
(*   - a JavaScript array is a sequence, a Map is a function, a Set that   *)
(*     is only tested for membership is a set;                             *)
(*   - the remote hosts are the environment: the Remote* definitions are   *)
(*     the data they hold, and every remote call draws its outcome         *)
(*     (success or a thrown error) nondeterministically.                   *)
(***************************************************************************)
EXTENDS Integers, Sequences, FiniteSets, TLC

(***************************************************************************)
(* Bounds of the model (not program constants).                            *)
(***************************************************************************)
\* remote calls that may fail during one run
MaxFaults == 1

(***************************************************************************)
(* Nullable values.                                                        *)
(***************************************************************************)
Null == <<"null">>

Some(v) == <<"some", v>>

Val(x) == x[2]

\* a field that is absent from an object
Undefined == <<"undefined">>

\* JavaScript `x || null` for a nullable string: the empty string is falsy
OrNull(x) == IF x = Null \/ x = Some("") THEN Null ELSE x

(***************************************************************************)
(* Sequence helpers (Array.prototype.filter / map / includes).             *)
(***************************************************************************)
Range(s) == {s[i] : i \in 1..Len(s)}

\* Set.prototype.add on an insertion-ordered Set kept as a sequence
SetAdd(s, x) == IF x \in Range(s) THEN s ELSE Append(s, x)

RECURSIVE SetAddAll(_, _)
SetAddAll(s, xs) == IF xs = <<>> THEN s ELSE SetAddAll(SetAdd(s, Head(xs)), Tail(xs))

RECURSIVE Flatten(_)
Flatten(ss) == IF ss = <<>> THEN <<>> ELSE Head(ss) \o Flatten(Tail(ss))

(***************************************************************************)
(* Strings as character sequences.                                         *)
(***************************************************************************)
\* the characters of a login ("" is what the code passes for a null login)
Chars(u) ==
  CASE u = "" -> <<>>
    [] u = "alice" -> <<"a", "l", "i", "c", "e">>
    [] u = "bob" -> <<"b", "o", "b">>
    [] u = "carol" -> <<"c", "a", "r", "o", "l">>
    [] u = "robot" -> <<"r", "o", "b", "o", "t">>
    [] u = "dependabot[bot]" ->
         <<"d", "e", "p", "e", "n", "d", "a", "b", "o", "t", "[", "b", "o", "t", "]">>
    [] u = "Renovate-App" ->
         <<"R", "e", "n", "o", "v", "a", "t", "e", "-", "A", "p", "p">>
    [] u = "deploy-bot" -> <<"d", "e", "p", "l", "o", "y", "-", "b", "o", "t">>
    [] u = "ci_bot" -> <<"c", "i", "_", "b", "o", "t">>
    [] u = "web-flow" -> <<"w", "e", "b", "-", "f", "l", "o", "w">>

\* String.prototype.toLowerCase on one character
LowerChar(c) ==
  CASE c = "A" -> "a"
    [] c = "R" -> "r"
    [] c = "B" -> "b"
    [] c = "W" -> "w"
    [] c = "C" -> "c"
    [] c = "G" -> "g"
    [] c = "P" -> "p"
    [] c = "T" -> "t"
    [] OTHER -> c

toLowerCase(s) == [i \in 1..Len(s) |-> LowerChar(s[i])]

startsWith(s, p) == Len(p) <= Len(s) /\ SubSeq(s, 1, Len(p)) = p

endsWith(s, p) == Len(p) <= Len(s) /\ SubSeq(s, Len(s) - Len(p) + 1, Len(s)) = p

includes(s, p) ==
  \E i \in 1..(Len(s) + 1) : i + Len(p) - 1 <= Len(s) /\ SubSeq(s, i, i + Len(p) - 1) = p

(***************************************************************************)
(* Bot detection.                                                          *)
(***************************************************************************)
isBot(username) ==
  LET lower == toLowerCase(Chars(username)) IN
    \/ endsWith(lower, <<"[", "b", "o", "t", "]">>)
    \/ startsWith(lower, <<"d", "e", "p", "e", "n", "d", "a", "b", "o", "t">>)
    \/ startsWith(lower, <<"r", "e", "n", "o", "v", "a", "t", "e">>)
    \/ startsWith(lower, <<"g", "i", "t", "h", "u", "b", "-", "a", "c", "t", "i", "o", "n", "s">>)
    \/ startsWith(lower, <<"c", "o", "d", "e", "c", "o", "v">>)
    \/ includes(lower, <<"-", "b", "o", "t">>)
    \/ includes(lower, <<"_", "b", "o", "t">>)
    \/ lower = <<"w", "e", "b", "-", "f", "l", "o", "w">>

(***************************************************************************)
(* AI tool detection.                                                      *)
(***************************************************************************)
\* the characters of a fragment of a commit message
FragmentChars(f) ==
  CASE f = "fix bug " -> <<"f", "i", "x", " ", "b", "u", "g", " ">>
    [] f = "Cursor: " -> <<"C", "u", "r", "s", "o", "r", ":", " ">>
    [] f = "Generated by Cursor " -> 
         <<"G", "e", "n", "e", "r", "a", "t", "e", "d", " ", "b", "y", " ", "C", "u", "r", "s", "o", "r", " ">>
    [] f = "Copilot " -> <<"C", "o", "p", "i", "l", "o", "t", " ">>
    [] f = "co-pilot " -> <<"c", "o", "-", "p", "i", "l", "o", "t", " ">>
    [] f = "Claude-3.5 " -> <<"C", "l", "a", "u", "d", "e", "-", "3", ".", "5", " ">>
    [] f = "Anthropic " -> <<"A", "n", "t", "h", "r", "o", "p", "i", "c", " ">>
    [] f = "ChatGPT " -> <<"C", "h", "a", "t", "G", "P", "T", " ">>
    [] f = "GPT-4o " -> <<"G", "P", "T", "-", "4", "o", " ">>

\* the message made of the fragments fs, in order
RECURSIVE MessageChars(_)
MessageChars(fs) ==
  IF fs = <<>> THEN <<>> ELSE FragmentChars(Head(fs)) \o MessageChars(Tail(fs))

\* the character class [\s-] of the modelled alphabet
IsSpaceOrHyphen(c) == c \in {" ", "-"}

\* the character class [\w.-] of the modelled alphabet
IsModelChar(c) == c \notin {" ", ":"}

\* the longest run of characters of [\w.-] of s that starts at index i
RECURSIVE ModelRun(_, _)
ModelRun(s, i) ==
  IF i > Len(s) \/ ~IsModelChar(s[i]) THEN <<>>
  ELSE <<s[i]>> \o ModelRun(s, i + 1)

\* the end of the longest run of [\s-] of s that starts at index i
RECURSIVE SkipEnd(_, _)
SkipEnd(s, i) ==
  IF i > Len(s) \/ ~IsSpaceOrHyphen(s[i]) THEN i ELSE SkipEnd(s, i + 1)

\* the group of [\s-]*([\w.-]+) matched at index j: the skip is greedy and
\* gives characters back, from k down to j, until the group is not empty
RECURSIVE GroupAfterSkip(_, _, _)
GroupAfterSkip(s, j, k) ==
  IF ModelRun(s, k) # <<>> THEN Some(ModelRun(s, k))
  ELSE IF k = j THEN Null
  ELSE GroupAfterSkip(s, j, k - 1)

\* group 1 of the leftmost match of /<word><skip>([\w.-]+)/i from index i on,
\* where <skip> is [\s-]* when skip is true and empty otherwise
RECURSIVE MatchGroup(_, _, _, _)
MatchGroup(s, word, skip, i) ==
  IF i + Len(word) - 1 > Len(s) THEN Null
  ELSE LET j == i + Len(word)
           g == IF toLowerCase(SubSeq(s, i, j - 1)) # word THEN Null
                ELSE GroupAfterSkip(s, j, IF skip THEN SkipEnd(s, j) ELSE j)
       IN IF g # Null THEN g ELSE MatchGroup(s, word, skip, i + 1)

AiResult(tool, model) ==
  [isAiAssisted |-> tool # Null, tool |-> tool, model |-> model]

\* a plausible slip: the Claude rule is tested before the Copilot rule
detectAiToolClaudeFirst(message) ==
  LET lower == toLowerCase(message) IN
  IF includes(lower, <<"c", "u", "r", "s", "o", "r", ":">>)
     \/ includes(lower, <<"g", "e", "n", "e", "r", "a", "t", "e", "d", " ", "b", "y", " ", "c", "u", "r", "s", "o", "r">>)
  THEN AiResult(Some("Cursor"), Null)
  ELSE IF includes(lower, <<"c", "l", "a", "u", "d", "e">>)
          \/ includes(lower, <<"a", "n", "t", "h", "r", "o", "p", "i", "c">>)
  THEN AiResult(Some("Claude"), MatchGroup(message, <<"c", "l", "a", "u", "d", "e">>, TRUE, 1))
  ELSE IF includes(lower, <<"c", "o", "p", "i", "l", "o", "t">>)
          \/ includes(lower, <<"c", "o", "-", "p", "i", "l", "o", "t">>)
          \/ includes(lower, <<"g", "i", "t", "h", "u", "b", " ", "c", "o", "p", "i", "l", "o", "t">>)
  THEN AiResult(Some("GitHub Copilot"), Null)
  ELSE IF includes(lower, <<"c", "h", "a", "t", "g", "p", "t">>)
          \/ includes(lower, <<"g", "p", "t", "-">>)
  THEN LET m == MatchGroup(message, <<"g", "p", "t", "-">>, FALSE, 1)
       IN AiResult(Some("ChatGPT"),
                   IF m = Null THEN Null ELSE Some(<<"g", "p", "t", "-">> \o Val(m)))
  ELSE AiResult(Null, Null)

detectAiTool(message) ==
  LET lower == toLowerCase(message) IN
  IF includes(lower, <<"c", "u", "r", "s", "o", "r", ":">>)
     \/ includes(lower, <<"g", "e", "n", "e", "r", "a", "t", "e", "d", " ", "b", "y", " ", "c", "u", "r", "s", "o", "r">>)
  THEN AiResult(Some("Cursor"), Null)
  ELSE IF includes(lower, <<"c", "o", "p", "i", "l", "o", "t">>)
          \/ includes(lower, <<"c", "o", "-", "p", "i", "l", "o", "t">>)
          \/ includes(lower, <<"g", "i", "t", "h", "u", "b", " ", "c", "o", "p", "i", "l", "o", "t">>)
  THEN AiResult(Some("GitHub Copilot"), Null)
  ELSE IF includes(lower, <<"c", "l", "a", "u", "d", "e">>)
          \/ includes(lower, <<"a", "n", "t", "h", "r", "o", "p", "i", "c">>)
  THEN AiResult(Some("Claude"), MatchGroup(message, <<"c", "l", "a", "u", "d", "e">>, TRUE, 1))
  ELSE IF includes(lower, <<"c", "h", "a", "t", "g", "p", "t">>)
          \/ includes(lower, <<"g", "p", "t", "-">>)
  THEN LET m == MatchGroup(message, <<"g", "p", "t", "-">>, FALSE, 1)
       IN AiResult(Some("ChatGPT"),
                   IF m = Null THEN Null ELSE Some(<<"g", "p", "t", "-">> \o Val(m)))
  ELSE AiResult(Null, Null)

(***************************************************************************)
(* Timestamps: ISO-8601 strings, parsed as new Date(...).getTime() does.   *)
(***************************************************************************)
\* the fields of the ISO strings that occur in the modelled remote data
DateParts(iso) ==
  CASE iso = "2024-12-31T00:00:00Z" -> <<2024, 12, 31, 0, 0, 0>>
    [] iso = "2025-01-01T00:00:00Z" -> <<2025, 1, 1, 0, 0, 0>>
    [] iso = "2025-01-02T12:00:00Z" -> <<2025, 1, 2, 12, 0, 0>>
    [] iso = "2025-01-03T00:10:00Z" -> <<2025, 1, 3, 0, 10, 0>>
    [] iso = "2025-01-02" -> <<2025, 1, 2, 0, 0, 0>>
    [] iso = "2024-02-29T23:59:59Z" -> <<2024, 2, 29, 23, 59, 59>>
    [] iso = "2025-01-01T08:20:00Z" -> <<2025, 1, 1, 8, 20, 0>>
    [] iso = "2025-03-01T00:00:00Z" -> <<2025, 3, 1, 0, 0, 0>>

\* days since 1970-01-01 of a proleptic Gregorian date
DaysFromCivil(y, m, d) ==
  LET yy == IF m <= 2 THEN y - 1 ELSE y
      era == yy \div 400
      yoe == yy - era * 400
      mp == IF m > 2 THEN m - 3 ELSE m + 9
      doy == (153 * mp + 2) \div 5 + d - 1
      doe == yoe * 365 + yoe \div 4 - yoe \div 100 + doy
  IN era * 146097 + doe - 719468

\* Date.prototype.getTime, in seconds
getTime(iso) ==
  LET p == DateParts(iso)
  IN DaysFromCivil(p[1], p[2], p[3]) * 86400 + p[4] * 3600 + p[5] * 60 + p[6]

\* n / d rounded to the nearest integer, halves away from zero
RoundDiv(n, d) ==
  IF n >= 0 THEN (2 * n + d) \div (2 * d) ELSE -((2 * (-n) + d) \div (2 * d))

\* a plausible slip: a negative duration is clamped to 0
calculateCycleTimeHoursClamped(start, end) ==
  IF end \in {Null, Undefined} THEN Null
  ELSE LET h == RoundDiv(getTime(Val(end)) - getTime(start), 36)
       IN Some(IF h < 0 THEN 0 ELSE h)

\* the result is in hundredths of an hour (toFixed(2)): one is 36 seconds
calculateCycleTimeHours(start, end) ==
  IF end \in {Null, Undefined} THEN Null
  ELSE Some(RoundDiv(getTime(Val(end)) - getTime(start), 36))

(***************************************************************************)
(* The remote GitHub data (environment).                                   *)
(***************************************************************************)
\* GET orgs/<owner>/repos
RemoteRepos(owner) ==
  CASE owner = "ownerA" ->
         << [name |-> "svc", archived |-> FALSE],
            [name |-> "old", archived |-> TRUE],
            [name |-> "web", archived |-> FALSE] >>
    [] owner = "ownerB" -> << [name |-> "svc", archived |-> FALSE] >>
    [] OTHER -> <<>>

RawPR(n, u, st, cr, mg, cl, rr) ==
  [number |-> n, user |-> u, state |-> st, created_at |-> cr, merged_at |-> mg,
   closed_at |-> cl, additions |-> Undefined, deletions |-> Undefined,
   commits |-> 2, requested_reviewers |-> rr]

\* GET repos/<owner>/<repo>/pulls?state=all
RemotePRs(owner, repo) ==
  CASE owner = "ownerA" /\ repo = "svc" ->
         << RawPR(7, Some("alice"), "closed", "2025-01-01T00:00:00Z",
                  Some("2025-01-02T12:00:00Z"), Some("2025-01-02T12:00:00Z"), <<"bob">>),
            RawPR(8, Some("dependabot[bot]"), "open", "2025-01-02T12:00:00Z",
                  Null, Null, <<>>) >>
    [] owner = "ownerA" /\ repo = "web" ->
         << RawPR(7, Null, "closed", "2024-12-31T00:00:00Z",
                  Null, Some("2025-01-01T00:00:00Z"), <<>>),
            RawPR(9, Some("carol"), "closed", "2025-01-02T12:00:00Z",
                  Some("2025-01-03T00:10:00Z"), Some("2025-01-03T00:10:00Z"), <<>>) >>
    [] owner = "ownerB" /\ repo = "svc" ->
         << RawPR(7, Some("robot"), "closed", "2025-01-02T12:00:00Z",
                  Some("2025-01-02T12:00:00Z"), Some("2025-01-02T12:00:00Z"), <<>>) >>
    [] OTHER -> <<>>

\* a commit of the remote data, by its sha
RemoteCommit(sha) ==
  CASE sha = "s1" -> [sha |-> "s1", author |-> Some("alice"),
                      date |-> "2025-01-01T00:00:00Z", additions |-> 10, deletions |-> 1]
    [] sha = "s2" -> [sha |-> "s2", author |-> Some("dependabot[bot]"),
                      date |-> "2025-01-02T12:00:00Z", additions |-> 3, deletions |-> 3]
    [] sha = "s3" -> [sha |-> "s3", author |-> Some("alice"),
                      date |-> "2025-01-02T12:00:00Z", additions |-> 0, deletions |-> 4]
    [] sha = "s4" -> [sha |-> "s4", author |-> Some("carol"),
                      date |-> "2025-01-03T00:10:00Z", additions |-> 5, deletions |-> 0]
    [] sha = "s5" -> [sha |-> "s5", author |-> Null,
                      date |-> "2025-01-02T12:00:00Z", additions |-> 7, deletions |-> 2]
    [] sha = "s6" -> [sha |-> "s6", author |-> Some("web-flow"),
                      date |-> "2025-01-03T00:10:00Z", additions |-> 1, deletions |-> 1]

\* the commits of a pull request (GraphQL commits.nodes, REST pulls/<n>/commits)
RemotePrShas(owner, repo, num) ==
  CASE owner = "ownerA" /\ repo = "svc" /\ num = 7 -> <<"s1", "s2">>
    [] owner = "ownerA" /\ repo = "svc" /\ num = 8 -> <<"s3">>
    [] owner = "ownerA" /\ repo = "web" /\ num = 7 -> <<"s5">>
    [] owner = "ownerA" /\ repo = "web" /\ num = 9 -> <<"s4", "s5">>
    [] owner = "ownerB" /\ repo = "svc" /\ num = 7 -> <<"s3">>
    [] OTHER -> <<>>

\* additions / deletions of a pull request (GraphQL and REST pulls/<n>)
RemotePrStats(owner, repo, num) ==
  IF num = 7 THEN [additions |-> 13, deletions |-> 4] ELSE [additions |-> 0, deletions |-> 4]

\* GET repos/<owner>/<repo>/commits, newest first
RemoteCommitShas(owner, repo) ==
  CASE owner = "ownerA" /\ repo = "svc" -> <<"s4", "s3", "s2", "s1">>
    [] owner = "ownerA" /\ repo = "web" -> <<"s6", "s4", "s5">>
    [] owner = "ownerB" /\ repo = "svc" -> <<"s3">>
    [] OTHER -> <<>>

RawReview(u, st) == [user |-> u, state |-> st, submitted_at |-> "2025-01-02T12:00:00Z"]

\* GET repos/<owner>/<repo>/pulls/<n>/reviews
RemoteReviews(owner, repo, num) ==
  CASE owner = "ownerA" /\ repo = "svc" /\ num = 7 ->
         << RawReview(Some("bob"), "APPROVED"),
            RawReview(Some("deploy-bot"), "COMMENTED"),
            RawReview(Some("carol"), "PENDING") >>
    [] owner = "ownerA" /\ repo = "svc" /\ num = 8 -> << RawReview(Some("alice"), "APPROVED") >>
    [] owner = "ownerA" /\ repo = "web" /\ num = 9 -> << RawReview(Null, "CHANGES_REQUESTED") >>
    [] owner = "ownerB" /\ repo = "svc" /\ num = 7 -> << RawReview(Some("alice"), "DISMISSED") >>
    [] OTHER -> <<>>

RawIssue(n, u, a, st, cr, cl, isPr) ==
  [number |-> n, user |-> u, assignee |-> a, state |-> st, created_at |-> cr,
   closed_at |-> cl, pull_request |-> isPr]

\* GET repos/<owner>/<repo>/issues?state=all (pull requests included)
RemoteIssues(owner, repo) ==
  CASE owner = "ownerA" /\ repo = "svc" ->
         << RawIssue(1, Some("alice"), Null, "closed", "2025-01-01T00:00:00Z",
                     Some("2025-01-02T12:00:00Z"), FALSE),
            RawIssue(2, Some("Renovate-App"), Some("alice"), "open",
                     "2025-01-02T12:00:00Z", Null, FALSE),
            RawIssue(7, Some("alice"), Null, "closed", "2025-01-01T00:00:00Z",
                     Some("2025-01-02T12:00:00Z"), TRUE) >>
    [] owner = "ownerA" /\ repo = "web" ->
         << RawIssue(1, Some("carol"), Some("ci_bot"), "open",
                     "2025-01-02T12:00:00Z", Null, FALSE),
            RawIssue(3, Some("carol"), Some("alice"), "open",
                     "2025-01-03T00:10:00Z", Null, FALSE) >>
    [] owner = "ownerB" /\ repo = "svc" ->
         << RawIssue(1, Null, Some("robot"), "closed", "2025-01-02T12:00:00Z",
                     Some("2025-01-01T00:00:00Z"), FALSE) >>
    [] OTHER -> <<>>

(***************************************************************************)
(* Batch detail resolver.                                                  *)
(*                                                                         *)
(* The outcome of the remote calls of one fetchPrDetailsBatch call is an   *)
(* oracle orc:                                                             *)
(*   orc.batchFail   the batches (numbered from 0) whose GraphQL request   *)
(*                   throws;                                               *)
(*   orc.missing     the identifiers for which a successful GraphQL        *)
(*                   response holds no data (pr<idx> is null);             *)
(*   orc.singleFail  the identifiers whose individual REST fetch throws.   *)
(* The result is [results, log]: the Map and the requests issued, in       *)
(* order.                                                                  *)
(***************************************************************************)
batchSize == 25

\* a plausible slip: the end index is taken as inclusive
sliceEndInclusive(s, i, j) == SubSeq(s, i + 1, IF j + 1 < Len(s) THEN j + 1 ELSE Len(s))

\* Array.prototype.slice(i, j) with 0-based, end-exclusive indices
slice(s, i, j) == SubSeq(s, i + 1, IF j < Len(s) THEN j ELSE Len(s))

\* Map.prototype.set
MapSet(m, k, v) == [x \in (DOMAIN m) \cup {k} |-> IF x = k THEN v ELSE m[x]]

\* Map.prototype.get
MapGet(m, k) == IF k \in DOMAIN m THEN Some(m[k]) ELSE Undefined

EmptyMap == [x \in {} |-> 0]

\* one commit node of the GraphQL response
BatchCommit(sha) ==
  LET c == RemoteCommit(sha) IN
    [sha |-> sha, authorUsername |-> OrNull(c.author), authorDate |-> c.date,
     additions |-> Some(c.additions), deletions |-> Some(c.deletions)]

\* a plausible slip: the fallback reports absent stats as 0
FallbackCommitZeroStats(sha) ==
  LET c == RemoteCommit(sha) IN
    [sha |-> sha, authorUsername |-> OrNull(c.author), authorDate |-> c.date,
     additions |-> Some(0), deletions |-> Some(0)]

\* one commit of REST pulls/<n>/commits: no per-commit stats
FallbackCommit(sha) ==
  LET c == RemoteCommit(sha) IN
    [sha |-> sha, authorUsername |-> OrNull(c.author), authorDate |-> c.date,
     additions |-> Null, deletions |-> Null]

\* the PrDetails stored for one identifier, by the batched or the individual path
PrDetailsOf(owner, repo, num, batched) ==
  [additions |-> RemotePrStats(owner, repo, num).additions,
   deletions |-> RemotePrStats(owner, repo, num).deletions,
   commits |-> [i \in 1..Len(RemotePrShas(owner, repo, num)) |->
                  IF batched THEN BatchCommit(RemotePrShas(owner, repo, num)[i])
                  ELSE FallbackCommit(RemotePrShas(owner, repo, num)[i])]]

\* the for loop over the pr<idx> aliases of a successful batched response
RECURSIVE BatchResponseLoop(_, _, _, _, _)
BatchResponseLoop(owner, repo, batch, orc, results) ==
  IF batch = <<>> THEN results
  ELSE BatchResponseLoop(owner, repo, Tail(batch), orc,
         IF Head(batch) \in orc.missing THEN results
         ELSE MapSet(results, Head(batch),
                     PrDetailsOf(owner, repo, Head(batch), TRUE)))

\* a plausible slip: the first failing individual fetch ends the fallback loop
RECURSIVE FallbackLoopAbortOnFailure(_, _, _, _, _)
FallbackLoopAbortOnFailure(owner, repo, batch, orc, acc) ==
  IF batch = <<>> THEN acc
  ELSE IF Head(batch) \in orc.singleFail
       THEN [acc EXCEPT !.log = Append(@, <<"single", Head(batch)>>)]
       ELSE FallbackLoopAbortOnFailure(owner, repo, Tail(batch), orc,
              [results |-> MapSet(acc.results, Head(batch),
                                  PrDetailsOf(owner, repo, Head(batch), FALSE)),
               log |-> Append(acc.log, <<"single", Head(batch)>>)])

\* the catch branch: one individual fetch per identifier of the batch, each
\* in its own try
RECURSIVE FallbackLoop(_, _, _, _, _)
FallbackLoop(owner, repo, batch, orc, acc) ==
  IF batch = <<>> THEN acc
  ELSE FallbackLoop(owner, repo, Tail(batch), orc,
         [results |-> IF Head(batch) \in orc.singleFail THEN acc.results
                      ELSE MapSet(acc.results, Head(batch),
                                  PrDetailsOf(owner, repo, Head(batch), FALSE)),
          log |-> Append(acc.log, <<"single", Head(batch)>>)])

RECURSIVE BatchLoop(_, _, _, _, _, _)
BatchLoop(owner, repo, prNumbers, orc, i, acc) ==
  IF i >= Len(prNumbers) THEN acc
  ELSE LET batch == slice(prNumbers, i, i + batchSize)
           sent == [acc EXCEPT !.log = Append(@, <<"batch", batch>>)]
       IN BatchLoop(owner, repo, prNumbers, orc, i + batchSize,
            IF (i \div batchSize) \in orc.batchFail
            THEN FallbackLoop(owner, repo, batch, orc, sent)
            ELSE [sent EXCEPT !.results =
                    BatchResponseLoop(owner, repo, batch, orc, @)])

fetchPrDetailsBatch(owner, repo, prNumbers, orc) ==
  BatchLoop(owner, repo, prNumbers, orc, 0, [results |-> EmptyMap, log |-> <<>>])

(***************************************************************************)
(* Remote call outcomes.                                                   *)
(*                                                                         *)
(* A call of ghApi either returns the parsed response ("ok") or throws.    *)
(* The thrown errors are told apart by what main's catch can see of them:  *)
(*   "NotFound"   new Error("Not found: <endpoint>") raised on a 404;      *)
(*   "Empty"      the gh error whose stdout holds status 409 / "Git        *)
(*                Repository is empty.";                                   *)
(*   "Auth"       the gh error of a 401/403 response;                      *)
(*   "Exhausted"  the gh error rethrown when the last retry failed.        *)
(***************************************************************************)
ErrKinds == {"NotFound", "Empty", "Auth", "Exhausted"}

Outcomes == {"ok"} \cup ErrKinds

\* a plausible slip: only err.message is searched, while the error of a failed
\* gh command carries the response in its stdout
isEmptyRepositoryErrorMessageOnly(err) == FALSE

\* out.includes("409") || out.includes("Git Repository is empty")
isEmptyRepositoryError(err) == err = "Empty"

Thrown(err) == [ok |-> FALSE, err |-> err]

(***************************************************************************)
(* Page-number pagination.                                                 *)
(***************************************************************************)
perPage == 100

\* the answer of the host to the request for page `page` of a list
PageOf(items, page) == slice(items, (page - 1) * perPage, page * perPage)

\* a plausible slip: only an empty page ends the loop
RECURSIVE PageLoopPastShortPage(_, _, _, _)
PageLoopPastShortPage(items, maxPages, page, acc) ==
  IF page > maxPages THEN acc
  ELSE LET pageResults == PageOf(items, page)
           asked == Append(acc.requests, page)
       IN
    IF Len(pageResults) = 0 THEN [acc EXCEPT !.requests = asked]
    ELSE PageLoopPastShortPage(items, maxPages, page + 1,
           [results |-> acc.results \o pageResults, requests |-> asked])

\* the loop of ghApiPaginated from page `page` on; acc holds the results so
\* far and the pages requested so far
RECURSIVE PageLoop(_, _, _, _)
PageLoop(items, maxPages, page, acc) ==
  IF page > maxPages THEN acc
  ELSE LET pageResults == PageOf(items, page)
           asked == Append(acc.requests, page)
       IN
    IF Len(pageResults) = 0 THEN [acc EXCEPT !.requests = asked]
    ELSE IF Len(pageResults) < perPage
      THEN [results |-> acc.results \o pageResults, requests |-> asked]
    ELSE PageLoop(items, maxPages, page + 1,
           [results |-> acc.results \o pageResults, requests |-> asked])

\* one call when every page request succeeds: what it returns and the page
\* requests it issued
PaginatedCall(items, maxPages) ==
  PageLoop(items, maxPages, 1, [results |-> <<>>, requests |-> <<>>])

\* the items returned when every page request succeeds
ghApiPaginated(items, maxPages) == PaginatedCall(items, maxPages).results

(***************************************************************************)
(* Export functions.                                                       *)
(***************************************************************************)
\* String(n)
String(n) == ToString(n)

\* review.state.toLowerCase()
LowerState(st) ==
  CASE st = "APPROVED" -> "approved"
    [] st = "CHANGES_REQUESTED" -> "changes_requested"
    [] st = "COMMENTED" -> "commented"
    [] st = "DISMISSED" -> "dismissed"
    [] st = "PENDING" -> "pending"
    [] OTHER -> st

validStates == {"approved", "changes_requested", "commented", "dismissed"}

\* new Date(created_at) >= since
NotBefore(iso, since) == since = Null \/ getTime(iso) >= getTime(Val(since))

\* a ?? b ?? 0 over a possibly undefined details entry and the list value
Coalesce(d, v) ==
  IF d # Undefined /\ d # Null THEN Val(d)
  ELSE IF v # Undefined /\ v # Null THEN Val(v) ELSE 0

\* the reviews pushed for one pull request
ReviewsOf(prId, reviews) ==
  LET kept(r) == /\ ~(r.user # Null /\ isBot(Val(r.user)))
                 /\ LowerState(r.state) \in validStates
      f == SelectSeq(reviews, kept)
  IN [i \in 1..Len(f) |->
        [prExternalId |-> prId, reviewerUsername |-> OrNull(f[i].user),
         state |-> LowerState(f[i].state), submittedAt |-> f[i].submitted_at]]

\* the commits pushed for one pull request
PrCommitsOf(prId, commits) ==
  LET kept(c) == ~isBot(IF c.authorUsername = Null THEN "" ELSE Val(c.authorUsername))
      f == SelectSeq(commits, kept)
  IN [i \in 1..Len(f) |->
        [sha |-> f[i].sha, prExternalId |-> Some(prId),
         authorUsername |-> f[i].authorUsername, committedAt |-> f[i].authorDate,
         additions |-> f[i].additions, deletions |-> f[i].deletions]]

\* the pull-request state
PrState(pr) ==
  IF pr.merged_at # Null THEN "merged" ELSE IF pr.state = "closed" THEN "closed" ELSE "open"

\* the body of the loop over filteredPrs, for one pull request that is not skipped
ExportOnePr(owner, repo, pr, detailsMap, revFail, acc) ==
  LET details == MapGet(detailsMap, pr.number)
      reviews == IF pr.number \in revFail THEN <<>>
                 ELSE RemoteReviews(owner, repo, pr.number)
      prId == String(pr.number)
      counted(r) == LowerState(r.state) \in validStates
  IN [pullRequests |-> Append(acc.pullRequests,
        [externalId |-> prId,
         authorUsername |-> OrNull(pr.user),
         state |-> PrState(pr),
         createdAt |-> pr.created_at,
         mergedAt |-> pr.merged_at,
         closedAt |-> pr.closed_at,
         additions |-> Coalesce(IF details = Undefined THEN Undefined
                                ELSE Some(Val(details).additions), pr.additions),
         deletions |-> Coalesce(IF details = Undefined THEN Undefined
                                ELSE Some(Val(details).deletions), pr.deletions),
         commitsCount |-> pr.commits,
         reviewsCount |-> Len(SelectSeq(reviews, counted)),
         cycleTimeHours |-> calculateCycleTimeHours(pr.created_at, pr.merged_at),
         reviewers |-> pr.requested_reviewers]),
      reviews |-> acc.reviews \o ReviewsOf(prId, reviews),
      commits |-> acc.commits \o
        PrCommitsOf(prId, IF details = Undefined THEN <<>> ELSE Val(details).commits)]

\* a plausible slip: pull requests opened by a bot are exported like the others
RECURSIVE PrLoopKeepBots(_, _, _, _, _, _)
PrLoopKeepBots(owner, repo, filteredPrs, detailsMap, revFail, acc) ==
  IF filteredPrs = <<>> THEN acc
  ELSE PrLoopKeepBots(owner, repo, Tail(filteredPrs), detailsMap, revFail,
         ExportOnePr(owner, repo, Head(filteredPrs), detailsMap, revFail, acc))

\* the loop over filteredPrs
RECURSIVE PrLoop(_, _, _, _, _, _)
PrLoop(owner, repo, filteredPrs, detailsMap, revFail, acc) ==
  IF filteredPrs = <<>> THEN acc
  ELSE LET pr == Head(filteredPrs) IN
    PrLoop(owner, repo, Tail(filteredPrs), detailsMap, revFail,
      IF pr.user # Null /\ isBot(Val(pr.user)) THEN acc
      ELSE ExportOnePr(owner, repo, pr, detailsMap, revFail, acc))

\* orc.list is the outcome of the pull-request listing, orc.details the oracle
\* of fetchPrDetailsBatch, orc.revFail the pull requests whose reviews call throws
exportPullRequests(options, orc) ==
  IF orc.list # "ok" THEN Thrown(orc.list)
  ELSE
    LET prs == ghApiPaginated(RemotePRs(options.owner, options.repo), options.maxPages)
        recent(pr) == NotBefore(pr.created_at, options.since)
        filteredPrs == SelectSeq(prs, recent)
        needs(pr) == pr.additions = Undefined \/ pr.additions = Null
        needing == SelectSeq(filteredPrs, needs)
        prsNeedingDetails == [i \in 1..Len(needing) |-> needing[i].number]
        fetched == fetchPrDetailsBatch(options.owner, options.repo,
                                       prsNeedingDetails, orc.details)
        out == PrLoop(options.owner, options.repo, filteredPrs, fetched.results,
                      orc.revFail,
                      [pullRequests |-> <<>>, reviews |-> <<>>, commits |-> <<>>])
    IN [ok |-> TRUE, pullRequests |-> out.pullRequests, reviews |-> out.reviews,
        commits |-> out.commits, detailsMap |-> fetched.results]

\* GET repos/<owner>/<repo>/commits?since=..., filtered by the host
RemoteCommitsSince(owner, repo, since) ==
  LET recent(sha) == NotBefore(RemoteCommit(sha).date, since)
  IN SelectSeq(RemoteCommitShas(owner, repo), recent)

\* a plausible slip: the listing is exported without looking at seenShas
exportCommitsIgnoringSeen(options, seenShas, outcome) ==
  IF outcome # "ok" THEN Thrown(outcome)
  ELSE
    LET commits == ghApiPaginated(
                     RemoteCommitsSince(options.owner, options.repo, options.since),
                     options.maxPages)
        kept(sha) == ~(RemoteCommit(sha).author # Null
                       /\ isBot(Val(RemoteCommit(sha).author)))
        f == SelectSeq(commits, kept)
    IN [ok |-> TRUE,
        commits |-> [i \in 1..Len(f) |->
          [sha |-> f[i], prExternalId |-> Null,
           authorUsername |-> OrNull(RemoteCommit(f[i]).author),
           committedAt |-> RemoteCommit(f[i]).date,
           additions |-> Null, deletions |-> Null]],
        listed |-> Range(commits)]

exportCommits(options, seenShas, outcome) ==
  IF outcome # "ok" THEN Thrown(outcome)
  ELSE
    LET commits == ghApiPaginated(
                     RemoteCommitsSince(options.owner, options.repo, options.since),
                     options.maxPages)
        kept(sha) == /\ sha \notin seenShas
                     /\ ~(RemoteCommit(sha).author # Null
                          /\ isBot(Val(RemoteCommit(sha).author)))
        f == SelectSeq(commits, kept)
    IN [ok |-> TRUE,
        commits |-> [i \in 1..Len(f) |->
          [sha |-> f[i], prExternalId |-> Null,
           authorUsername |-> OrNull(RemoteCommit(f[i]).author),
           committedAt |-> RemoteCommit(f[i]).date,
           additions |-> Null, deletions |-> Null]],
        listed |-> Range(commits)]

\* lines 723-772 of exportIssues: the listing without the pull requests and
\* without the issues a bot opened or is assigned to
ExportedIssues(options) ==
  LET issues == ghApiPaginated(RemoteIssues(options.owner, options.repo),
                               options.maxPages)
      real(i) == ~i.pull_request
      kept(i) == /\ ~(i.user # Null /\ isBot(Val(i.user)))
                 /\ ~(i.assignee # Null /\ isBot(Val(i.assignee)))
      f == SelectSeq(SelectSeq(issues, real), kept)
  IN [k \in 1..Len(f) |->
        [externalId |-> String(f[k].number),
         authorUsername |-> OrNull(f[k].user),
         assigneeUsername |-> OrNull(f[k].assignee),
         state |-> IF f[k].state = "closed" THEN "closed" ELSE "open",
         createdAt |-> f[k].created_at,
         closedAt |-> f[k].closed_at,
         resolvedAt |-> f[k].closed_at,
         cycleTimeHours |-> calculateCycleTimeHours(f[k].created_at, f[k].closed_at)]]

\* a plausible slip: the catch of exportIssues logs the failure and rethrows
exportIssuesRaising(options, outcome) ==
  IF outcome # "ok" THEN Thrown(outcome)
  ELSE [ok |-> TRUE, issues |-> ExportedIssues(options)]

\* the issues endpoint never raises to the caller: any failure yields []
exportIssues(options, outcome) ==
  IF outcome # "ok" THEN [ok |-> TRUE, issues |-> <<>>]
  ELSE [ok |-> TRUE, issues |-> ExportedIssues(options)]

\* GET users/<username>
RemoteUser(username) == [login |-> username]

\* the usernames Set of exportContributors, in insertion order
ContributorUsernames(pullRequests, commits, issues) ==
  LET prNames == [i \in 1..Len(pullRequests) |-> pullRequests[i].authorUsername]
      commitNames == [i \in 1..Len(commits) |-> commits[i].authorUsername]
      issueNames == Flatten([i \in 1..Len(issues) |->
                      <<issues[i].authorUsername, issues[i].assigneeUsername>>])
      truthy(x) == x # Null
      all == SelectSeq(prNames \o commitNames \o issueNames, truthy)
  IN SetAddAll(<<>>, [i \in 1..Len(all) |-> Val(all[i])])

\* profileFail: the usernames whose profile fetch fails (fetchGitHubUserProfile
\* returns null); the e-mail lookup does not decide who is listed
exportContributors(pullRequests, commits, issues, owners, profileFail) ==
  LET usernames == ContributorUsernames(pullRequests, commits, issues)
      found(u) == u \notin profileFail
      f == SelectSeq(usernames, found)
  IN [i \in 1..Len(f) |-> [externalUsername |-> RemoteUser(f[i]).login]]

\* outcome "org": orgs/<owner>/repos answers; "user": it throws and
\* users/<owner>/repos answers; an error kind: both throw
fetchAllRepos(owner, outcome) ==
  IF outcome \in ErrKinds THEN Thrown(outcome)
  ELSE LET repos == ghApiPaginated(RemoteRepos(owner), 100)
           live(r) == ~r.archived
           f == SelectSeq(repos, live)
       IN [ok |-> TRUE, names |-> [i \in 1..Len(f) |-> f[i].name]]

(***************************************************************************)
(* The run of main: configuration, position, accumulated output.           *)
(***************************************************************************)
VARIABLES
  cfg,              \* [owners, singleRepo, since, maxPages]: the command line
  pc,               \* position of main: "owner", "prs", "commits", "issues",
                    \* "contributors", "exited"
  oi,               \* index of the current owner in cfg.owners
  repos,            \* repos of the current owner
  ri,               \* index of the current repo in repos
  unit,             \* locals of the current iteration: prs, reviews, prCommits,
                    \* commits, and what its two commit paths returned
  allPullRequests,
  allCommits,
  allIssues,
  allReviews,
  outputFile,       \* Null, or Some(payload) once writeFileSync has run
  exitStatus,       \* Null while running, Some(code) after process.exit
  caught,           \* Null, or Some([err, at]): the error caught by the outer
                    \* catch of main and the step that threw it
  faults,           \* failing remote calls still allowed in this run
  run,              \* 1 for the first invocation, 2 for the re-run
  prevDone,         \* units completed by the interrupted first invocation
  done,             \* units whose records were appended in this run
  skipped,          \* units skipped as empty in this run
  requested,        \* units for which this run issued a remote request
  hist,             \* per appended unit: what the two commit paths returned
                    \* and the commits the unit appended
  stepFault         \* Null, or Some([at, err]): a remote call of the step just
                    \* taken that failed, the phase it belongs to and its kind

mainVars ==
  <<cfg, pc, oi, repos, ri, unit, allPullRequests, allCommits, allIssues,
    allReviews, outputFile, exitStatus, caught, faults, run, prevDone, done,
    skipped, requested, hist, stepFault>>

\* one call of fetchPrDetailsBatch on its own
VARIABLES
  bIn,              \* the arguments and the oracle of the call
  bOut              \* Null, or Some([results, log]) once the call has returned

batchVars == <<bIn, bOut>>

\* one call of ghApi or of jiraApi on its own
VARIABLES
  api,              \* "gh" or "jira": the client that is called
  retries,          \* the parameter retries of the call
  attempt,          \* the loop variable
  apc,              \* "idle", "loop", "returned" or "raised"
  execs,            \* executions of the remote command (execSync) so far
  outcomes,         \* what each execution came back with, in order
  sleeps,           \* the waits applied so far: [attempt, cause, ms]
  result            \* Null, Some("parsed") once returned, Some(error) once raised

retryVars == <<api, retries, attempt, apc, execs, outcomes, sleeps, result>>

\* one call of ghApiPaginated on its own
VARIABLES
  pIn,              \* the arguments of the call: the remote list and maxPages
  pOut              \* Null, or Some([results, requests]) once it has returned

pageVars == <<pIn, pOut>>

\* one run of the Jira export
VARIABLES
  maxResults,       \* --max-results
  jpc,              \* "idle", "fetch", "process", "write" or "exited"
  jiraIssues,       \* allIssues of exportJiraIssues: the keys fetched so far
  nextPageToken,    \* Undefined, or Some(token) of the last response
  jiraRequests,     \* the first requests of the run, in order: [sent, got],
                    \* the page token sent and the one the response held
  exported,         \* Null, or Some(issues) once exportJiraIssues has returned
  jiraOutputFile,   \* Null, or Some(payload) once writeFileSync has run
  jiraExit          \* Null while running, Some(code) after process.exit

jiraVars ==
  <<maxResults, jpc, jiraIssues, nextPageToken, jiraRequests, exported,
    jiraOutputFile, jiraExit>>

\* the variables the steps of main leave alone
\* one call of calculateCycleTimeHours
VARIABLES
  cIn,              \* the arguments of the call: [start, end]
  cOut              \* Undefined, or what the call returned: Null or Some(h),
                    \* h in hundredths of an hour

cycleVars == <<cIn, cOut>>

\* one call of detectAiTool
VARIABLES
  dIn,              \* the commit message of the call, as its fragments in order
  dOut              \* Null, or Some(record) once the call has returned

aiVars == <<dIn, dOut>>

nonMainVars == <<batchVars, retryVars, pageVars, jiraVars, cycleVars, aiVars>>

vars == <<mainVars, nonMainVars>>

OwnerLists ==
  { <<"ownerA">>, <<"ownerB">>, <<"ownerA", "ownerB">>, <<"ownerB", "ownerA">>,
    <<"ownerC", "ownerB">> }

Configs ==
  [owners : OwnerLists, singleRepo : {Null, Some("svc")},
   since : {Null, Some("2025-01-02")}, maxPages : {50}]

NoUnit ==
  [prs |-> <<>>, reviews |-> <<>>, prCommits |-> <<>>, commits |-> <<>>,
   detailShas |-> {}, listed |-> {}]

\* the locals of a process that has just entered the try block of main
FreshLocals(c) ==
  /\ cfg = c
  /\ oi = 1
  /\ repos = <<>>
  /\ ri = 1
  /\ unit = NoUnit
  /\ allPullRequests = <<>>
  /\ allCommits = <<>>
  /\ allIssues = <<>>
  /\ allReviews = <<>>
  /\ exitStatus = Null
  /\ caught = Null
  /\ faults = MaxFaults
  /\ done = <<>>
  /\ skipped = {}
  /\ requested = {}
  /\ hist = <<>>
  /\ stepFault = Null

NoOracle == [batchFail |-> {}, missing |-> {}, singleFail |-> {}]

BatchIdle == bIn = [prNumbers |-> <<>>, orc |-> NoOracle] /\ bOut = Null

\* no call of ghApiPaginated is being followed
PageIdle == pIn = [items |-> <<>>, maxPages |-> 1] /\ pOut = Null

\* no call of detectAiTool is being followed
AiIdle == dIn = <<>> /\ dOut = Null

\* no call of calculateCycleTimeHours is being followed
CycleIdle == cIn = [start |-> "2025-01-01T00:00:00Z", end |-> Null] /\ cOut = Undefined

\* no Jira export is running
JiraIdle ==
  /\ maxResults = 1000
  /\ jpc = "idle"
  /\ jiraIssues = <<>>
  /\ nextPageToken = Undefined
  /\ jiraRequests = <<>>
  /\ exported = Null
  /\ jiraOutputFile = Null
  /\ jiraExit = Null

\* no call of ghApi or jiraApi is being followed
RetryIdle ==
  /\ api = "gh"
  /\ retries = 3
  /\ attempt = 1
  /\ apc = "idle"
  /\ execs = 0
  /\ outcomes = <<>>
  /\ sleeps = <<>>
  /\ result = Null

Init ==
  /\ \E c \in Configs : FreshLocals(c)
  /\ pc = "owner"
  /\ outputFile = Null
  /\ run = 1
  /\ prevDone = <<>>
  /\ BatchIdle
  /\ RetryIdle
  /\ PageIdle
  /\ JiraIdle
  /\ CycleIdle
  /\ AiIdle

\* no export is running
MainIdle ==
  /\ FreshLocals([owners |-> <<"ownerA">>, singleRepo |-> Some("svc"),
                  since |-> Null, maxPages |-> 50])
  /\ pc = "idle"
  /\ outputFile = Null
  /\ run = 1
  /\ prevDone = <<>>

multiOwner == Len(cfg.owners) > 1

multiRepo == Len(repos) > 1

owner == cfg.owners[oi]

repo == repos[ri]

options == [owner |-> owner, repo |-> repo, since |-> cfg.since, maxPages |-> cfg.maxPages]

\* whether the repository exists on the host (a 404 is not a fault of the network)
RepoExists(o, r) == \E i \in 1..Len(RemoteRepos(o)) : RemoteRepos(o)[i].name = r

\* a plausible slip: the statements after the loops sit inside the repo loop
AdvanceToEndAfterUnit ==
  /\ pc' = "contributors"
  /\ UNCHANGED <<oi, repos, ri>>

\* the end of one iteration of the repo loop: next repo, next owner, or the
\* statements after the loops
Advance ==
  IF ri < Len(repos)
  THEN /\ ri' = ri + 1
       /\ pc' = "prs"
       /\ UNCHANGED <<oi, repos>>
  ELSE /\ oi' = oi + 1
       /\ ri' = 1
       /\ repos' = <<>>
       /\ pc' = IF oi + 1 > Len(cfg.owners) THEN "contributors" ELSE "owner"

\* the outer catch of main: console.error, process.exit(1)
Abort(err) ==
  /\ caught' = Some([err |-> err, at |-> pc])
  /\ exitStatus' = Some(1)
  /\ pc' = "exited"

\* the inner catch of main (lines 953-960)
UnitCatch(err) ==
  IF isEmptyRepositoryError(err)
  THEN /\ skipped' = skipped \cup {<<owner, repo>>}
       /\ unit' = NoUnit
       /\ Advance
       /\ UNCHANGED <<caught, exitStatus>>
  ELSE /\ Abort(err)
       /\ UNCHANGED <<oi, repos, ri, unit, skipped>>

(***************************************************************************)
(* The steps of main.                                                      *)
(***************************************************************************)
\* the pull-request numbers of the listing of the current unit
ListedPrNumbers ==
  {RemotePRs(owner, repo)[i].number : i \in 1..Len(RemotePRs(owner, repo))}

\* the failing calls an oracle of exportPullRequests stands for
PrOracleCost(o) ==
  (IF o.list \in {"ok"} \/ ~RepoExists(owner, repo) THEN 0 ELSE 1)
  + Cardinality(o.details.batchFail) + Cardinality(o.details.missing)
  + Cardinality(o.details.singleFail) + Cardinality(o.revFail)

\* the outcomes of the remote calls of one exportPullRequests call
PrOracles ==
  { o \in [list : Outcomes,
           details : [batchFail : SUBSET {0}, missing : SUBSET ListedPrNumbers,
                      singleFail : SUBSET ListedPrNumbers],
           revFail : SUBSET ListedPrNumbers] :
      /\ PrOracleCost(o) <= faults
      /\ (~RepoExists(owner, repo)) => o.list = "NotFound"
      /\ o.list # "ok" =>
           o.details.batchFail = {} /\ o.details.missing = {} /\ o.revFail = {}
      /\ o.details.batchFail = {} => o.details.singleFail = {}
      /\ o.details.batchFail # {} => o.details.missing = {} }

\* the (pull request, sha) pairs a result of fetchPrDetailsBatch holds
DetailShas(detailsMap) ==
  UNION { {<<n, detailsMap[n].commits[i].sha>> : i \in 1..Len(detailsMap[n].commits)} :
          n \in DOMAIN detailsMap }

\* a failed call of phase `at`, of kind `err`
Fault(at, err) == Some([at |-> at, err |-> err])

\* the failures a step may have met: none when `failed` is false
FaultsAt(at, failed) == IF failed THEN {Fault(at, k) : k \in ErrKinds} ELSE {}

\* the failures of one exportPullRequests call: the listing's when it throws,
\* else those the detail fallback and the reviews loop have absorbed
PrStepFaults(o) ==
  IF o.list # "ok" THEN {Fault("prs", o.list)}
  ELSE LET absorbed == FaultsAt("details", o.details.batchFail # {})
                       \cup FaultsAt("reviews", o.revFail # {})
       IN IF absorbed = {} THEN {Null} ELSE absorbed

\* lines 907-926: the repos of the current owner
MainFetchRepos ==
  /\ pc = "owner"
  /\ IF cfg.singleRepo # Null
     THEN /\ repos' = <<Val(cfg.singleRepo)>>
          /\ ri' = 1
          /\ pc' = "prs"
          /\ stepFault' = Null
          /\ UNCHANGED <<oi, caught, exitStatus, faults, requested>>
     ELSE \E outcome \in {"org", "user"} \cup ErrKinds :
            LET cost == IF outcome = "org" THEN 0 ELSE 1
                r == fetchAllRepos(owner, outcome)
            IN /\ cost <= faults
               /\ faults' = faults - cost
               /\ requested' = requested \cup {<<owner, "*">>}
               /\ stepFault' \in
                    IF outcome = "org" THEN {Null}
                    ELSE IF outcome = "user" THEN FaultsAt("repos", TRUE)
                    ELSE {Fault("repos", outcome)}
               /\ IF ~r.ok
                  THEN Abort(r.err) /\ UNCHANGED <<oi, repos, ri>>
                  ELSE IF Len(r.names) = 0
                  THEN /\ oi' = oi + 1
                       /\ pc' = IF oi + 1 > Len(cfg.owners) THEN "contributors" ELSE "owner"
                       /\ UNCHANGED <<repos, ri, caught, exitStatus>>
                  ELSE /\ repos' = r.names
                       /\ ri' = 1
                       /\ pc' = "prs"
                       /\ UNCHANGED <<oi, caught, exitStatus>>
  /\ UNCHANGED <<cfg, unit, allPullRequests, allCommits, allIssues, allReviews,
                 outputFile, run, prevDone, done, skipped, hist>>
  /\ UNCHANGED nonMainVars

\* line 948: exportPullRequests of the current unit
MainExportPullRequests ==
  /\ pc = "prs"
  /\ \E o \in PrOracles :
       LET r == exportPullRequests(options, o) IN
         /\ faults' = faults - PrOracleCost(o)
         /\ requested' = requested \cup {<<owner, repo>>}
         /\ stepFault' \in PrStepFaults(o)
         /\ IF r.ok
            THEN /\ unit' = [prs |-> r.pullRequests, reviews |-> r.reviews,
                             prCommits |-> r.commits, commits |-> <<>>,
                             detailShas |-> DetailShas(r.detailsMap),
                             listed |-> {}]
                 /\ pc' = "commits"
                 /\ UNCHANGED <<oi, repos, ri, caught, exitStatus, skipped>>
            ELSE UnitCatch(r.err)
  /\ UNCHANGED <<cfg, allPullRequests, allCommits, allIssues, allReviews,
                 outputFile, run, prevDone, done, hist>>
  /\ UNCHANGED nonMainVars

\* a plausible slip: the set is kept across the units of the run
SeenShasOfRun(prCommits) ==
  {prCommits[i].sha : i \in 1..Len(prCommits)}
  \cup {allCommits[i].sha : i \in 1..Len(allCommits)}

\* new Set(prCommits.map((c) => c.sha))
SeenShasOf(prCommits) == {prCommits[i].sha : i \in 1..Len(prCommits)}

\* lines 949-951: exportCommits of the current unit, after its pull requests
MainExportCommits ==
  /\ pc = "commits"
  /\ \E outcome \in Outcomes :
       LET cost == IF outcome = "ok" THEN 0 ELSE 1
           seenShas == SeenShasOf(unit.prCommits)
           r == exportCommits(options, seenShas, outcome)
       IN /\ cost <= faults
          /\ faults' = faults - cost
          /\ stepFault' = IF outcome = "ok" THEN Null ELSE Fault("commits", outcome)
          /\ IF r.ok
             THEN /\ unit' = [unit EXCEPT !.commits = unit.prCommits \o r.commits,
                                          !.listed = r.listed]
                  /\ pc' = "issues"
                  /\ UNCHANGED <<oi, repos, ri, caught, exitStatus, skipped>>
             ELSE UnitCatch(r.err)
  /\ UNCHANGED <<cfg, allPullRequests, allCommits, allIssues, allReviews,
                 outputFile, run, prevDone, done, requested, hist>>
  /\ UNCHANGED nonMainVars

\* `${prefix}/${id}`
Prefixed(prefix, id) == prefix \o "/" \o id

\* the prefix of lines 963-964, or Null when ids are left alone
UnitPrefix(isMultiOwner, isMultiRepo, o, r) ==
  IF isMultiOwner \/ isMultiRepo
  THEN Some(IF isMultiOwner THEN o \o "/" \o r ELSE r)
  ELSE Null

\* a plausible slip: the reviews keep the unprefixed pull-request id
PrefixReviewsForgotten(prefix, reviews) == reviews

PrefixReviews(prefix, reviews) ==
  [i \in 1..Len(reviews) |->
     [reviews[i] EXCEPT !.prExternalId = Prefixed(prefix, @)]]

\* a plausible slip: the prefix is the repo name even with several owners
PrefixIdsRepoOnly(prefix, records) ==
  [i \in 1..Len(records) |->
     [records[i] EXCEPT !.externalId = Prefixed(repos[ri], @)]]

\* pull requests and issues: the record's own externalId
PrefixIds(prefix, records) ==
  [i \in 1..Len(records) |->
     [records[i] EXCEPT !.externalId = Prefixed(prefix, @)]]

PrefixCommits(prefix, commits) ==
  [i \in 1..Len(commits) |->
     IF commits[i].prExternalId # Null
     THEN [commits[i] EXCEPT !.prExternalId = Some(Prefixed(prefix, Val(@)))]
     ELSE commits[i]]

\* a plausible slip: the unit's records are assigned, not pushed
PushedOverwriting(all, records) == records

\* all.push(...records)
Pushed(all, records) == all \o records

\* lines 952-977: exportIssues, the externalId prefixes, the four pushes
MainExportIssues ==
  /\ pc = "issues"
  /\ \E outcome \in Outcomes :
       LET cost == IF outcome = "ok" THEN 0 ELSE 1
           r == exportIssues(options, outcome)
           prefix == UnitPrefix(multiOwner, multiRepo, owner, repo)
           rewrite == prefix # Null
       IN /\ cost <= faults
          /\ faults' = faults - cost
          /\ stepFault' = IF outcome = "ok" THEN Null ELSE Fault("issues", outcome)
          /\ IF r.ok
             THEN
               /\ allPullRequests' = Pushed(allPullRequests,
                    IF rewrite THEN PrefixIds(Val(prefix), unit.prs) ELSE unit.prs)
               /\ allReviews' = Pushed(allReviews,
                    IF rewrite THEN PrefixReviews(Val(prefix), unit.reviews)
                    ELSE unit.reviews)
               /\ allIssues' = Pushed(allIssues,
                    IF rewrite THEN PrefixIds(Val(prefix), r.issues) ELSE r.issues)
               /\ allCommits' = Pushed(allCommits,
                    IF rewrite THEN PrefixCommits(Val(prefix), unit.commits)
                    ELSE unit.commits)
               /\ hist' = Append(hist,
                    [owner |-> owner, repo |-> repo, prefix |-> prefix,
                     detailShas |-> unit.detailShas,
                     listed |-> unit.listed,
                     commits |-> IF rewrite
                                 THEN PrefixCommits(Val(prefix), unit.commits)
                                 ELSE unit.commits])
               /\ done' = Append(done, <<owner, repo>>)
               /\ unit' = NoUnit
               /\ Advance
               /\ UNCHANGED <<exitStatus, caught, skipped>>
             ELSE
               /\ UnitCatch(r.err)
               /\ UNCHANGED <<allPullRequests, allReviews, allIssues, allCommits,
                              hist, done>>
  /\ UNCHANGED <<cfg, outputFile, run, prevDone, requested>>
  /\ UNCHANGED nonMainVars

\* line 1014 reads `repos`, which line 914 declares with `let` inside the body
\* of the owner loop: the name is not in scope after the loops, and evaluating
\* the template literal throws a ReferenceError
reposInScopeAtSummary == FALSE

\* the usernames whose profile is looked up
ProfileUsernames == Range(ContributorUsernames(allPullRequests, allCommits, allIssues))

\* lines 980-1034: contributors, the payload, writeFileSync, the summary and
\* process.exit
MainExportContributors ==
  /\ pc = "contributors"
  /\ \E profileFail \in SUBSET ProfileUsernames :
       /\ Cardinality(profileFail) <= faults
       /\ faults' = faults - Cardinality(profileFail)
       /\ stepFault' \in IF profileFail = {} THEN {Null}
                         ELSE FaultsAt("profiles", TRUE)
       /\ outputFile' = Some(
            [contributors |-> exportContributors(allPullRequests, allCommits,
                                                 allIssues, cfg.owners, profileFail),
             pullRequests |-> allPullRequests,
             commits |-> allCommits,
             issues |-> allIssues,
             reviews |-> allReviews])
  /\ IF reposInScopeAtSummary
     THEN exitStatus' = Some(0) /\ caught' = Null
     ELSE exitStatus' = Some(1) /\ caught' = Some([err |-> "ReferenceError", at |-> "summary"])
  /\ pc' = "exited"
  /\ UNCHANGED <<cfg, oi, repos, ri, unit, allPullRequests, allCommits, allIssues,
                 allReviews, run, prevDone, done, skipped, requested, hist>>
  /\ UNCHANGED nonMainVars

\* the operator interrupts the first invocation (Ctrl+C): the process ends
\* with the status of SIGINT; the script installs no signal handler
Interrupt ==
  /\ pc # "exited"
  /\ run = 1
  /\ pc' = "exited"
  /\ exitStatus' = Some(130)
  /\ stepFault' = Null
  /\ UNCHANGED <<cfg, oi, repos, ri, unit, allPullRequests, allCommits, allIssues,
                 allReviews, outputFile, caught, faults, run, prevDone, done,
                 skipped, requested, hist>>
  /\ UNCHANGED nonMainVars

\* the same command is run again after an interrupted invocation: a new
\* process, the same configuration, the files the first one left
Rerun ==
  /\ pc = "exited"
  /\ run = 1
  /\ exitStatus = Some(130)
  /\ run' = 2
  /\ prevDone' = done
  /\ pc' = "owner"
  /\ oi' = 1
  /\ repos' = <<>>
  /\ ri' = 1
  /\ unit' = NoUnit
  /\ allPullRequests' = <<>>
  /\ allCommits' = <<>>
  /\ allIssues' = <<>>
  /\ allReviews' = <<>>
  /\ exitStatus' = Null
  /\ caught' = Null
  /\ faults' = MaxFaults
  /\ done' = <<>>
  /\ skipped' = {}
  /\ requested' = {}
  /\ hist' = <<>>
  /\ stepFault' = Null
  /\ UNCHANGED <<cfg, outputFile>>
  /\ UNCHANGED nonMainVars

Next ==
  \/ MainFetchRepos
  \/ MainExportPullRequests
  \/ MainExportCommits
  \/ MainExportIssues
  \/ MainExportContributors
  \/ Interrupt
  \/ Rerun

Spec == Init /\ [][Next]_vars

(***************************************************************************)
(* fetchPrDetailsBatch on its own: the identifiers and the outcomes of the *)
(* remote calls are drawn in the initial state, one action applies the     *)
(* function.                                                               *)
(***************************************************************************)
\* the longest identifier list (it spans two batches)
MaxBatchIds == 27

\* the identifiers whose remote calls may fail or return no data
FaultyIds == {2, 3, 26}

\* the identifiers 1..n, in order
IdSeq(n) == [i \in 1..n |-> i]

BatchInputs ==
  [prNumbers : {IdSeq(n) : n \in 0..MaxBatchIds},
   orc : [batchFail : SUBSET {0, 1}, missing : SUBSET FaultyIds,
          singleFail : SUBSET FaultyIds]]

InitBatch ==
  /\ MainIdle
  /\ RetryIdle
  /\ PageIdle
  /\ JiraIdle
  /\ CycleIdle
  /\ AiIdle
  /\ bIn \in BatchInputs
  /\ bOut = Null

CallFetchPrDetailsBatch ==
  /\ bOut = Null
  /\ bOut' = Some(fetchPrDetailsBatch("ownerA", "svc", bIn.prNumbers, bIn.orc))
  /\ UNCHANGED <<bIn, mainVars, retryVars, pageVars, jiraVars, cycleVars, aiVars>>

NextBatch == CallFetchPrDetailsBatch

SpecBatch == InitBatch /\ [][NextBatch]_vars

\* the identifiers of batch b (numbered from 0) of the call
BatchIds(b) ==
  {bIn.prNumbers[i] : i \in {j \in 1..Len(bIn.prNumbers) : (j - 1) \div batchSize = b}}

\* C6: when the batched request of a batch fails, the result map holds an
\* entry for every identifier of that batch whose individual fetches succeed,
\* whatever happens to the individual fetches of the other identifiers
FallbackKeepsSiblings ==
  bOut # Null =>
    \A b \in bIn.orc.batchFail :
      \A id \in BatchIds(b) :
        id \notin bIn.orc.singleFail => id \in DOMAIN Val(bOut).results

\* a failed batch in which one individual fetch failed and a later sibling
\* made it into the result
FallbackKeepsSiblingsWitness ==
  /\ bOut # Null
  /\ 0 \in bIn.orc.batchFail
  /\ 2 \in bIn.orc.singleFail
  /\ 2 \notin DOMAIN Val(bOut).results
  /\ {1, 3} \subseteq DOMAIN Val(bOut).results

(***************************************************************************)
(* Properties of the written snapshot.                                     *)
(***************************************************************************)
Written == outputFile # Null

Snapshot == Val(outputFile)

\* the indices of the snapshot's commits with a given sha
EntriesWithSha(sha) ==
  {i \in 1..Len(Snapshot.commits) : Snapshot.commits[i].sha = sha}

\* the snapshot id of pull request n of a unit of hist
PrIdOf(h, n) == IF h.prefix = Null THEN String(n) ELSE Prefixed(Val(h.prefix), String(n))

\* the raw pull request n of a unit of hist
RawPrOf(h, n) ==
  LET prs == RemotePRs(h.owner, h.repo)
  IN prs[CHOOSE i \in 1..Len(prs) : prs[i].number = n]

NullableIsBot(u) == u # Null /\ isBot(Val(u))

ActorUsernames ==
  {Snapshot.pullRequests[i].authorUsername : i \in 1..Len(Snapshot.pullRequests)}
  \cup {Snapshot.commits[i].authorUsername : i \in 1..Len(Snapshot.commits)}
  \cup {Snapshot.reviews[i].reviewerUsername : i \in 1..Len(Snapshot.reviews)}
  \cup {Snapshot.issues[i].authorUsername : i \in 1..Len(Snapshot.issues)}
  \cup {Snapshot.issues[i].assigneeUsername : i \in 1..Len(Snapshot.issues)}

ContributorNames ==
  {Snapshot.contributors[i].externalUsername : i \in 1..Len(Snapshot.contributors)}

\* C2: no actor field of a snapshot record and no contributor entry holds a
\* username for which isBot is true
NoBotInSnapshot ==
  Written =>
    /\ \A u \in ActorUsernames : u # Null => ~isBot(Val(u))
    /\ \A u \in ContributorNames : ~isBot(u)

\* a snapshot of both repos of ownerA, whose remote data has a bot in every
\* role: pull-request author, commit author, reviewer, issue author, assignee
NoBotInSnapshotWitness ==
  /\ Written
  /\ done = << <<"ownerA", "svc">>, <<"ownerA", "web">> >>
  /\ cfg.since = Null
  /\ \E i \in 1..Len(RemotePRs("ownerA", "svc")) :
       NullableIsBot(RemotePRs("ownerA", "svc")[i].user)
  /\ "s2" \in hist[1].listed /\ NullableIsBot(RemoteCommit("s2").author)
  /\ \E i \in 1..Len(RemoteReviews("ownerA", "svc", 7)) :
       NullableIsBot(RemoteReviews("ownerA", "svc", 7)[i].user)
  /\ \E i \in 1..Len(RemoteIssues("ownerA", "svc")) :
       NullableIsBot(RemoteIssues("ownerA", "svc")[i].user)
  /\ \E i \in 1..Len(RemoteIssues("ownerA", "web")) :
       NullableIsBot(RemoteIssues("ownerA", "web")[i].assignee)
  /\ Len(Snapshot.pullRequests) = 3
  /\ Len(Snapshot.reviews) >= 1
  /\ Len(Snapshot.issues) >= 1
  /\ Len(Snapshot.contributors) >= 1

\* C3 as stated: every non-null username field of a snapshot record is the
\* externalUsername of some contributor
UsernamesResolve ==
  Written => \A u \in ActorUsernames : u # Null => Val(u) \in ContributorNames

PrIds == {Snapshot.pullRequests[i].externalId : i \in 1..Len(Snapshot.pullRequests)}

IssueIds == {Snapshot.issues[i].externalId : i \in 1..Len(Snapshot.issues)}

\* C4: with more than one owner or more than one repository, the pull-request
\* externalIds are pairwise distinct and so are the issue externalIds; with
\* ownerA and ownerB both holding svc with pull request 7, both namespaced ids
\* are in the snapshot
NamespacedIdsDistinct ==
  (Written /\ (Len(cfg.owners) > 1 \/ Len(done) > 1)) =>
    /\ Cardinality(PrIds) = Len(Snapshot.pullRequests)
    /\ Cardinality(IssueIds) = Len(Snapshot.issues)
    /\ ( /\ {<<"ownerA", "svc">>, <<"ownerB", "svc">>} \subseteq Range(done)
         /\ cfg.since = Null ) =>
         {"ownerA/svc/7", "ownerB/svc/7"} \subseteq PrIds

\* a snapshot of ownerA and ownerB, each with pull request 7 of svc
NamespacedIdsDistinctWitness ==
  /\ Written
  /\ cfg.owners = <<"ownerA", "ownerB">>
  /\ cfg.since = Null
  /\ {<<"ownerA", "svc">>, <<"ownerB", "svc">>} \subseteq Range(done)
  /\ {"ownerA/svc/7", "ownerB/svc/7"} \subseteq PrIds
  /\ Len(Snapshot.issues) >= 2

\* C5: every review's prExternalId and every commit's non-null prExternalId
\* is the externalId of exactly one pull request of the snapshot
PrReferencesResolve ==
  Written =>
    LET holders(id) == {i \in 1..Len(Snapshot.pullRequests) :
                          Snapshot.pullRequests[i].externalId = id}
    IN /\ \A i \in 1..Len(Snapshot.reviews) :
            Cardinality(holders(Snapshot.reviews[i].prExternalId)) = 1
       /\ \A i \in 1..Len(Snapshot.commits) :
            Snapshot.commits[i].prExternalId # Null =>
              Cardinality(holders(Val(Snapshot.commits[i].prExternalId))) = 1

\* a namespaced snapshot with a review and a commit that point at a pull request
PrReferencesResolveWitness ==
  /\ Written
  /\ cfg.owners = <<"ownerA", "ownerB">>
  /\ \E i \in 1..Len(Snapshot.reviews) :
       Snapshot.reviews[i].prExternalId = "ownerA/svc/7"
  /\ \E i \in 1..Len(Snapshot.commits) :
       Snapshot.commits[i].prExternalId = Some("ownerB/svc/7")

(***************************************************************************)
(* Properties of the run: resumption, exit status, skipped units.          *)
(***************************************************************************)
\* C7 as stated: when the same command is run again after an interruption,
\* the second run issues no remote request for the units the first run had
\* completed, and the records of those units are in the snapshot exactly once
NoRefetchOfCompletedUnits ==
  run = 2 =>
    /\ \A u \in Range(prevDone) : u \notin requested
    /\ Written =>
         \A u \in Range(prevDone) : Cardinality({i \in 1..Len(done) : done[i] = u}) = 1

\* C9 as stated: a run that gets through all its units writes the snapshot
\* and exits with status 0, a run that aborts exits with another status
ExitStatusTellsCompletion ==
  pc = "exited" =>
    /\ Written => exitStatus = Some(0)
    /\ ~Written => exitStatus # Some(0)

\* C10 as stated: a not-found failure of a call of one unit never ends the
\* run: it is not the error that reaches the outer catch of main
NotFoundSkipsOnlyUnit ==
  ~( /\ caught # Null
     /\ Val(caught).err = "NotFound"
     /\ Val(caught).at \in {"prs", "commits"} )

(***************************************************************************)
(* Properties of the run: failures of remote calls.                        *)
(***************************************************************************)
\* C11 as stated: a transient failure that outlives its retries inside a unit
\* other than the first never ends the run: it is not the error that reaches
\* the outer catch of main
ExhaustionStaysInUnit ==
  ~( /\ caught # Null
     /\ Val(caught).err = "Exhausted"
     /\ Val(caught).at \in {"prs", "commits"}
     /\ <<oi, ri>> # <<1, 1>> )

\* C12 as stated: once a remote call has come back with an authentication
\* failure the run has aborted: it has exited with a non-zero status, it has
\* written no snapshot and it stands at no further call
AuthFailureAbortsRun ==
  ( /\ stepFault # Null
    /\ Val(stepFault).err = "Auth"
    /\ Val(stepFault).at \in {"prs", "details", "reviews", "commits", "issues",
                              "profiles"} ) =>
    /\ pc = "exited"
    /\ exitStatus # Null /\ exitStatus # Some(0)
    /\ outputFile = Null

\* C13: a step in which the issues call of a unit fails raises nothing, adds
\* no issue, and appends the pull requests, reviews and commits the unit had
\* collected; the snapshot written at the end holds the accumulated records
IssuesFailureKeepsUnit ==
  [][ /\ (pc = "issues" /\ stepFault' # Null /\ Val(stepFault').at = "issues") =>
           /\ caught' = Null /\ exitStatus' = Null
           /\ allIssues' = allIssues
           /\ done' = Append(done, <<owner, repo>>)
           /\ Len(allPullRequests') = Len(allPullRequests) + Len(unit.prs)
           /\ \A i \in 1..Len(unit.prs) :
                [allPullRequests'[Len(allPullRequests) + i] EXCEPT !.externalId = ""]
                  = [unit.prs[i] EXCEPT !.externalId = ""]
           /\ Len(allReviews') = Len(allReviews) + Len(unit.reviews)
           /\ \A i \in 1..Len(unit.reviews) :
                [allReviews'[Len(allReviews) + i] EXCEPT !.prExternalId = ""]
                  = [unit.reviews[i] EXCEPT !.prExternalId = ""]
           /\ Len(allCommits') = Len(allCommits) + Len(unit.commits)
           /\ \A i \in 1..Len(unit.commits) :
                allCommits'[Len(allCommits) + i].sha = unit.commits[i].sha
      /\ (pc = "contributors" /\ outputFile' # outputFile) =>
           /\ Val(outputFile').pullRequests = allPullRequests
           /\ Val(outputFile').reviews = allReviews
           /\ Val(outputFile').commits = allCommits ]_vars

\* the issues call of the only unit so far has failed, and the pull requests,
\* reviews and commits of that unit are in the accumulated output
IssuesFailureKeepsUnitWitness ==
  /\ stepFault # Null /\ Val(stepFault).at = "issues"
  /\ Len(done) = 1
  /\ allPullRequests # <<>> /\ allReviews # <<>> /\ allCommits # <<>>
  /\ allIssues = <<>>

\* the step skips its unit as a whole: nothing is appended, no error is left
\* to the outer catch, and main stands at the next unit, the next owner or
\* the statements after the loops
UnitSkippedWhole ==
  /\ skipped' = skipped \cup {<<owner, repo>>}
  /\ allPullRequests' = allPullRequests
  /\ allReviews' = allReviews
  /\ allCommits' = allCommits
  /\ allIssues' = allIssues
  /\ done' = done
  /\ caught' = Null /\ exitStatus' = Null
  /\ IF ri < Len(repos) THEN pc' = "prs" /\ ri' = ri + 1 /\ oi' = oi
     ELSE oi' = oi + 1 /\ pc' \in {"owner", "contributors"}

\* C14 as stated: a step in which a call of any fetch phase of the unit
\* (pull requests, details, reviews, commits, issues) fails with the
\* empty-repository signal skips the unit as a whole
EmptySignalInAnyPhaseSkipsUnit ==
  [][ ( /\ pc \in {"prs", "commits", "issues"}
        /\ stepFault' # Null
        /\ Val(stepFault').err = "Empty"
        /\ Val(stepFault').at \in {"prs", "details", "reviews", "commits", "issues"} )
      => UnitSkippedWhole ]_vars

\* C14 as amended: a step in which the pull-request listing or the commit
\* listing of the unit fails with the empty-repository signal skips the unit
\* as a whole
EmptySignalFromListingSkipsUnit ==
  [][ ( /\ pc \in {"prs", "commits"}
        /\ stepFault' # Null
        /\ Val(stepFault').err = "Empty"
        /\ Val(stepFault').at \in {"prs", "commits"} )
      => UnitSkippedWhole ]_vars

\* the commit listing of a unit has just failed with the signal after the
\* unit's pull requests were collected, an earlier unit is in the output, and
\* main goes on
EmptySignalFromListingSkipsUnitWitness ==
  /\ stepFault = Fault("commits", "Empty")
  /\ skipped # {}
  /\ Len(done) = 1
  /\ Len(allPullRequests) = 1
  /\ pc \in {"prs", "owner"}

(***************************************************************************)
(* ghApi and jiraApi: one call, attempt by attempt.  An attempt is one     *)
(* execution of the remote command; what it came back with is drawn from   *)
(* the outcomes the code tells apart.                                      *)
(***************************************************************************)
\* the largest value of the parameter retries (every caller leaves the
\* default, 3)
MaxRetries == 3

\* what an execution of `gh api` came back with: ok is a zero exit status,
\* json whether stdout parses, status the HTTP status of the response,
\* conn whether stderr names a connection error, rate whether stdout or
\* stderr holds "rate limit"
GhResp(ok, json, status, conn, rate) ==
  [ok |-> ok, json |-> json, status |-> status, conn |-> conn, rate |-> rate]

GhAttemptOutcomes ==
  { GhResp(TRUE, TRUE, 200, FALSE, FALSE), GhResp(TRUE, FALSE, 200, FALSE, FALSE),
    GhResp(FALSE, TRUE, 0, TRUE, FALSE),
    GhResp(FALSE, TRUE, 403, FALSE, TRUE), GhResp(FALSE, TRUE, 429, FALSE, TRUE) }
  \cup { GhResp(FALSE, TRUE, st, FALSE, FALSE) : st \in {401, 403, 404, 409, 500, 502} }
  \cup { GhResp(FALSE, TRUE, 404, TRUE, FALSE), GhResp(FALSE, TRUE, 404, FALSE, TRUE) }

\* a plausible slip: the output of the command is returned without being parsed
ghTryReturnsUnparsed(e) == e.ok

\* the try block of ghApi returns: execSync and JSON.parse did not throw
ghTryReturns(e) == e.ok /\ e.json

\* stdout.includes('"status":"404"') || stdout.includes("Not Found")
ghNotFound(e) == ~e.ok /\ e.status = 404

\* a 401/403 response that is not a rate-limit response
ghAuthFailure(e) == ~e.ok /\ e.status \in {401, 403} /\ ~e.rate

\* the error a failed execution raises to the caller when it is rethrown,
\* in the kinds main tells apart
ghErrKind(e) ==
  IF ghAuthFailure(e) THEN "Auth"
  ELSE IF e.status = 409 THEN "Empty"
  ELSE "Exhausted"

ghConnectionWait(a) == 2^a * 2000

\* a plausible slip: the rate-limit branch copies the base of the branch above
ghRateLimitWaitSameBase(a) == 2^a * 2000

ghRateLimitWait(a) == 2^a * 1000

ghErrorWait(a) == 2^a * 500

\* a plausible slip: the loop runs while attempt <= retries + 1
ghApiLoopGuardOffByOne(a, n) == a <= n + 1

\* attempt <= retries
ghApiLoopGuard(a, n) == a <= n

\* a plausible slip: the 404 test comes after the two retry branches
ghApiCatchNotFoundLast(a, n, e) ==
  IF e.conn /\ a < n
    THEN [act |-> "retry", cause |-> "network", wait |-> ghConnectionWait(a)]
  ELSE IF e.rate /\ a < n
    THEN [act |-> "retry", cause |-> "ratelimit", wait |-> ghRateLimitWait(a)]
  ELSE IF ghNotFound(e) THEN [act |-> "throw", err |-> "NotFound"]
  ELSE IF a = n THEN [act |-> "throw", err |-> ghErrKind(e)]
  ELSE [act |-> "retry", cause |-> "other", wait |-> ghErrorWait(a)]

\* the catch block of ghApi for the failed execution e of attempt a
ghApiCatch(a, n, e) ==
  IF ghNotFound(e) THEN [act |-> "throw", err |-> "NotFound"]
  ELSE IF e.conn /\ a < n
    THEN [act |-> "retry", cause |-> "network", wait |-> ghConnectionWait(a)]
  ELSE IF e.rate /\ a < n
    THEN [act |-> "retry", cause |-> "ratelimit", wait |-> ghRateLimitWait(a)]
  ELSE IF a = n THEN [act |-> "throw", err |-> ghErrKind(e)]
  ELSE [act |-> "retry", cause |-> "other", wait |-> ghErrorWait(a)]

\* what an execution of curl came back with: curl is "fail" on a non-zero
\* exit status (netText: the error message names a connection error), else
\* status is the HTTP status, json whether the body parses, apiErr whether
\* the body holds errorMessages or errors
JiraResp(curl, netText, status, json, apiErr) ==
  [curl |-> curl, netText |-> netText, status |-> status, json |-> json,
   apiErr |-> apiErr]

JiraAttemptOutcomes ==
  { JiraResp("ok", FALSE, 200, TRUE, FALSE), JiraResp("ok", FALSE, 200, FALSE, FALSE),
    JiraResp("ok", FALSE, 400, TRUE, TRUE), JiraResp("ok", FALSE, 404, TRUE, TRUE),
    JiraResp("fail", TRUE, 0, FALSE, FALSE), JiraResp("fail", FALSE, 0, FALSE, FALSE) }
  \cup { JiraResp("ok", FALSE, st, TRUE, FALSE) : st \in {401, 403, 429, 500, 503} }

jiraAuthFailure(e) == e.curl = "ok" /\ e.status \in {401, 403}

\* the error thrown inside the try block of jiraApi for the response e, or
\* "none" when the block throws nothing
jiraThrown(e) ==
  IF e.curl = "fail" THEN (IF e.netText THEN "Network" ELSE "CommandFailed")
  ELSE IF e.status = 401 \/ e.status = 403 THEN "AuthenticationFailed"
  ELSE IF e.status = 429 THEN "none"
  ELSE IF e.status >= 500 THEN "ServerError"
  ELSE IF ~e.json THEN "SyntaxError"
  ELSE IF e.apiErr THEN "ApiError"
  ELSE "none"

jiraNetworkWait(a) == 2^a * 2000

jiraRateLimitWait(a) == 2^a * 5000

jiraErrorWait(a) == 2^a * 500

jiraApiLoopGuard(a, n) == a <= n

\* a plausible slip: an authentication failure is retried like any other error
jiraApiCatchRetriesAuth(a, n, err) ==
  IF a = n THEN [act |-> "throw", err |-> err]
  ELSE IF err = "Network"
    THEN [act |-> "retry", cause |-> "network", wait |-> jiraNetworkWait(a)]
  ELSE [act |-> "retry", cause |-> "other", wait |-> jiraErrorWait(a)]

\* the catch block of jiraApi for the error err thrown in attempt a
jiraApiCatch(a, n, err) ==
  IF err = "AuthenticationFailed" THEN [act |-> "throw", err |-> err]
  ELSE IF a = n THEN [act |-> "throw", err |-> err]
  ELSE IF err = "Network"
    THEN [act |-> "retry", cause |-> "network", wait |-> jiraNetworkWait(a)]
  ELSE [act |-> "retry", cause |-> "other", wait |-> jiraErrorWait(a)]

InitRetry ==
  /\ MainIdle
  /\ BatchIdle
  /\ PageIdle
  /\ JiraIdle
  /\ CycleIdle
  /\ AiIdle
  /\ api \in {"gh", "jira"}
  /\ retries \in 0..MaxRetries
  /\ attempt = 1
  /\ apc = "loop"
  /\ execs = 0
  /\ outcomes = <<>>
  /\ sleeps = <<>>
  /\ result = Null

\* await sleep(ms), as the waits of the call record it
Slept(a, cause, ms) == [attempt |-> a, cause |-> cause, ms |-> ms]

\* sync-github.ts lines 252-301: one iteration of the loop of ghApi
GhApiAttempt ==
  /\ api = "gh"
  /\ apc = "loop"
  /\ ghApiLoopGuard(attempt, retries)
  /\ \E e \in GhAttemptOutcomes :
       /\ execs' = execs + 1
       /\ outcomes' = Append(outcomes, e)
       /\ IF ghTryReturns(e)
          THEN /\ apc' = "returned"
               /\ result' = Some("parsed")
               /\ UNCHANGED <<attempt, sleeps>>
          ELSE LET c == ghApiCatch(attempt, retries, e) IN
            IF c.act = "throw"
            THEN /\ apc' = "raised"
                 /\ result' = Some(c.err)
                 /\ UNCHANGED <<attempt, sleeps>>
            ELSE /\ sleeps' = Append(sleeps, Slept(attempt, c.cause, c.wait))
                 /\ attempt' = attempt + 1
                 /\ UNCHANGED <<apc, result>>
  /\ UNCHANGED <<api, retries, mainVars, batchVars, pageVars, jiraVars, cycleVars, aiVars>>

\* sync-github.ts line 303: the loop of ghApi has ended
GhApiExhausted ==
  /\ api = "gh"
  /\ apc = "loop"
  /\ ~ghApiLoopGuard(attempt, retries)
  /\ apc' = "raised"
  /\ result' = Some("FailedAfterRetries")
  /\ UNCHANGED <<api, retries, attempt, execs, outcomes, sleeps, mainVars, batchVars,
                 pageVars, jiraVars, cycleVars, aiVars>>

\* lines 184-256 of the Jira script: one iteration of the loop of jiraApi
JiraApiAttempt ==
  /\ api = "jira"
  /\ apc = "loop"
  /\ jiraApiLoopGuard(attempt, retries)
  /\ \E e \in JiraAttemptOutcomes :
       LET err == jiraThrown(e) IN
       /\ execs' = execs + 1
       /\ outcomes' = Append(outcomes, e)
       /\ IF e.curl = "ok" /\ e.status = 429
          THEN /\ sleeps' = Append(sleeps,
                    Slept(attempt, "ratelimit", jiraRateLimitWait(attempt)))
               /\ attempt' = attempt + 1
               /\ UNCHANGED <<apc, result>>
          ELSE IF err = "none"
          THEN /\ apc' = "returned"
               /\ result' = Some("parsed")
               /\ UNCHANGED <<attempt, sleeps>>
          ELSE LET c == jiraApiCatch(attempt, retries, err) IN
            IF c.act = "throw"
            THEN /\ apc' = "raised"
                 /\ result' = Some(c.err)
                 /\ UNCHANGED <<attempt, sleeps>>
            ELSE /\ sleeps' = Append(sleeps, Slept(attempt, c.cause, c.wait))
                 /\ attempt' = attempt + 1
                 /\ UNCHANGED <<apc, result>>
  /\ UNCHANGED <<api, retries, mainVars, batchVars, pageVars, jiraVars, cycleVars, aiVars>>

\* line 258 of the Jira script: the loop of jiraApi has ended
JiraApiExhausted ==
  /\ api = "jira"
  /\ apc = "loop"
  /\ ~jiraApiLoopGuard(attempt, retries)
  /\ apc' = "raised"
  /\ result' = Some("FailedAfterRetries")
  /\ UNCHANGED <<api, retries, attempt, execs, outcomes, sleeps, mainVars, batchVars,
                 pageVars, jiraVars, cycleVars, aiVars>>

NextRetry ==
  \/ GhApiAttempt
  \/ GhApiExhausted
  \/ JiraApiAttempt
  \/ JiraApiExhausted

\* the call is one sequential async function: an attempt that is due is made
\* and a sleep that was started ends
SpecRetry == InitRetry /\ [][NextRetry]_vars /\ WF_vars(NextRetry)

(***************************************************************************)
(* Properties of one call of ghApi or jiraApi.                             *)
(***************************************************************************)
\* C15 as stated: in ghApi an execution that comes back with a 401/403 is the
\* last one of the call and no wait follows it: the call has raised, and when
\* it was the first execution the call made one execution and no wait
GhAuthFailureRaisedAtOnce ==
  api = "gh" =>
    \A i \in 1..Len(outcomes) :
      ghAuthFailure(outcomes[i]) =>
        /\ i = Len(outcomes)
        /\ apc = "raised"
        /\ \A k \in 1..Len(sleeps) : sleeps[k].attempt # i
        /\ i = 1 => (execs = 1 /\ sleeps = <<>>)

\* C16: in jiraApi an execution that comes back with a 401/403 is the last
\* one of the call and no wait follows it: the call has raised the
\* authentication error, and when it was the first execution the call made
\* one execution and no wait, whatever retries is
JiraAuthFailureRaisedAtOnce ==
  api = "jira" =>
    \A i \in 1..Len(outcomes) :
      jiraAuthFailure(outcomes[i]) =>
        /\ i = Len(outcomes)
        /\ apc = "raised"
        /\ result = Some("AuthenticationFailed")
        /\ \A k \in 1..Len(sleeps) : sleeps[k].attempt # i
        /\ i = 1 => (execs = 1 /\ sleeps = <<>>)

\* a call of jiraApi with retries left whose first response was a 401
JiraAuthFailureRaisedAtOnceWitness ==
  /\ api = "jira"
  /\ retries = MaxRetries
  /\ outcomes = <<JiraResp("ok", FALSE, 401, TRUE, FALSE)>>
  /\ apc = "raised"
  /\ execs = 1

\* C17: a call of ghApi or jiraApi never executes the remote command more
\* than `retries` times, it ends by returning the parsed response or by
\* raising an error, and it does end
ApiCallEndsWithinRetries ==
  /\ [](execs <= retries)
  /\ [](apc \in {"returned", "raised"} => result # Null)
  /\ [](apc = "returned" => result = Some("parsed"))
  /\ <>(apc \in {"returned", "raised"})

\* a call that used every attempt it was allowed and then raised
ApiCallEndsWithinRetriesWitness ==
  /\ retries = MaxRetries
  /\ execs = retries
  /\ Len(sleeps) = retries - 1
  /\ apc = "raised"

\* the wait after a connection error at attempt a
NetworkWait(client, a) ==
  IF client = "gh" THEN ghConnectionWait(a) ELSE jiraNetworkWait(a)

\* C18 as stated: in both clients every wait applied after a rate-limit
\* signal is strictly shorter than the wait after a connection error at the
\* same attempt number
RateLimitWaitShorterThanNetworkWait ==
  \A k \in 1..Len(sleeps) :
    sleeps[k].cause = "ratelimit" =>
      sleeps[k].ms < NetworkWait(api, sleeps[k].attempt)

\* C18 as amended: in ghApi every wait applied after a rate-limit signal is
\* strictly shorter than the wait after a connection error at the same
\* attempt number; in jiraApi it is strictly longer
RateLimitWaitShorterInGhLongerInJira ==
  \A k \in 1..Len(sleeps) :
    sleeps[k].cause = "ratelimit" =>
      IF api = "gh"
      THEN sleeps[k].ms < NetworkWait("gh", sleeps[k].attempt)
      ELSE sleeps[k].ms > NetworkWait("jira", sleeps[k].attempt)

\* a call of ghApi that waited after a rate-limit signal at attempts 1 and 2
RateLimitWaitShorterInGhLongerInJiraWitness ==
  /\ api = "gh"
  /\ Len(sleeps) = 2
  /\ sleeps[1].cause = "ratelimit"
  /\ sleeps[2].cause = "ratelimit"
  /\ sleeps[2].ms = 4000

(***************************************************************************)
(* The Jira export: exportJiraIssues page by page, then main's write.      *)
(***************************************************************************)
\* const pageSize = 100
pageSize == 100

\* the requests of one run that jiraRequests records
MaxJiraRequests == 3

\* the opaque page tokens the host hands out
JiraTokens == {"tokA", "tokB"}

\* the answer of a request that jiraApi raised for
Raised == <<"raised">>

\* a plausible slip: the token of the last response never reaches the body
SentTokenDropped(token) == Undefined

\* the truthiness of nextPageToken: set and not the empty string
HasToken(token) == token # Undefined /\ Val(token) # ""

\* if (nextPageToken) requestBody.nextPageToken = nextPageToken
SentToken(token) == IF HasToken(token) THEN token ELSE Undefined

\* jiraRequests after one more request
Logged(log, sent, got) ==
  IF Len(log) < MaxJiraRequests THEN Append(log, [sent |-> sent, got |-> got]) ELSE log

\* the values of --max-results that are tried
MaxResultsValues == {1, 100, 150, 200}

\* the number of issues in a page response; the host returns at most the
\* maxResults of the request body, which is pageSize
JiraPageSizes == {0, 40, pageSize}

\* the n-th issue the search returns (environment)
RemoteJiraIssue(n) ==
  [key |-> "PROJ-" \o String(n),
   statusCategory |-> CASE n % 4 = 0 -> "new"
                        [] n % 4 = 1 -> "indeterminate"
                        [] n % 8 = 2 -> "done"
                        [] n % 8 = 6 -> "Done"
                        [] OTHER -> "undefined",
   created |-> "2025-01-01T00:00:00Z",
   updated |-> "2025-01-03T00:10:00Z",
   resolutiondate |-> CASE n % 8 = 2 -> Some("2025-01-02T12:00:00Z")
                        [] n % 8 = 4 -> Undefined
                        [] OTHER -> Null]

\* statusCategory.toLowerCase(), for the categories of the modelled issues
LowerCategory(c) ==
  CASE c = "Done" -> "done"
    [] c = "To Do" -> "to do"
    [] c = "In Progress" -> "in progress"
    [] OTHER -> c

\* a plausible slip: the done category is mapped to "closed"
mapJiraStateDoneClosed(statusCategory) ==
  LET c == LowerCategory(statusCategory) IN
  CASE c \in {"new", "to do"} -> "open"
    [] c \in {"indeterminate", "in progress"} -> "in_progress"
    [] c = "done" -> "closed"
    [] OTHER -> "open"

mapJiraState(statusCategory) ==
  LET c == LowerCategory(statusCategory) IN
  CASE c \in {"new", "to do"} -> "open"
    [] c \in {"indeterminate", "in progress"} -> "in_progress"
    [] c = "done" -> "resolved"
    [] OTHER -> "open"

\* the body of the loop over allIssues (lines 328-358)
ExportJiraIssue(issue) ==
  LET state == mapJiraState(issue.statusCategory) IN
  [externalId |-> issue.key,
   state |-> state,
   createdAt |-> issue.created,
   updatedAt |-> issue.updated,
   closedAt |-> IF state = "closed" \/ state = "resolved"
                THEN (IF issue.resolutiondate \notin {Null, Undefined}
                      THEN issue.resolutiondate
                      ELSE Some(issue.updated))
                ELSE Null,
   resolvedAt |-> issue.resolutiondate,
   cycleTimeHours |-> calculateCycleTimeHours(issue.created, issue.resolutiondate)]

\* the fields of an exported issue that the payload type declares nullable;
\* the other fields of the modelled records always hold a string
JiraNullableFields == {"closedAt", "resolvedAt", "cycleTimeHours"}

\* JSON.stringify of one exported issue: a key whose value is undefined is
\* left out
Stringify(rec) ==
  [f \in {g \in DOMAIN rec : g \notin JiraNullableFields \/ rec[g] # Undefined}
     |-> rec[f]]

InitJira ==
  /\ MainIdle
  /\ BatchIdle
  /\ RetryIdle
  /\ PageIdle
  /\ CycleIdle
  /\ AiIdle
  /\ maxResults \in MaxResultsValues
  /\ jpc = "fetch"
  /\ jiraIssues = <<>>
  /\ nextPageToken = Undefined
  /\ jiraRequests = <<>>
  /\ exported = Null
  /\ jiraOutputFile = Null
  /\ jiraExit = Null

\* lines 288-322: one iteration of the do-while loop of exportJiraIssues;
\* when jiraApi raises, the error reaches the catch of main (lines 476-479)
JiraFetchPage ==
  /\ jpc = "fetch"
  /\ \/ /\ jpc' = "exited"
        /\ jiraExit' = Some(1)
        /\ jiraRequests' = Logged(jiraRequests, SentToken(nextPageToken), Raised)
        /\ UNCHANGED <<jiraIssues, nextPageToken>>
     \/ \E n \in JiraPageSizes, token \in {Undefined} \cup {Some(t) : t \in JiraTokens} :
          LET all == jiraIssues \o [i \in 1..n |-> Len(jiraIssues) + i]
          IN /\ jiraIssues' = all
             /\ nextPageToken' = token
             /\ jiraRequests' = Logged(jiraRequests, SentToken(nextPageToken), token)
             /\ jpc' = IF Len(all) >= maxResults THEN "process"
                       ELSE IF ~HasToken(token) THEN "process"
                       ELSE "fetch"
             /\ UNCHANGED jiraExit
  /\ UNCHANGED <<maxResults, exported, jiraOutputFile>>
  /\ UNCHANGED <<mainVars, batchVars, retryVars, pageVars, cycleVars, aiVars>>

\* lines 324-362: the fetched issues are mapped and returned
JiraProcess ==
  /\ jpc = "process"
  /\ exported' = Some([i \in 1..Len(jiraIssues) |->
                         ExportJiraIssue(RemoteJiraIssue(jiraIssues[i]))])
  /\ jpc' = "write"
  /\ UNCHANGED <<maxResults, jiraIssues, nextPageToken, jiraRequests,
                 jiraOutputFile, jiraExit>>
  /\ UNCHANGED <<mainVars, batchVars, retryVars, pageVars, cycleVars, aiVars>>

\* lines 443-475 of main: the payload is written, the process exits with 0
JiraWrite ==
  /\ jpc = "write"
  /\ jiraOutputFile' = Some([issues |-> [i \in 1..Len(Val(exported)) |->
                                             Stringify(Val(exported)[i])]])
  /\ jiraExit' = Some(0)
  /\ jpc' = "exited"
  /\ UNCHANGED <<maxResults, jiraIssues, nextPageToken, jiraRequests, exported>>
  /\ UNCHANGED <<mainVars, batchVars, retryVars, pageVars, cycleVars, aiVars>>

NextJira ==
  \/ JiraFetchPage
  \/ JiraProcess
  \/ JiraWrite

\* the export is one sequential async function: a request that is due is
\* made and its answer arrives
SpecJira == InitJira /\ [][NextJira]_vars /\ WF_vars(NextJira)

\* C19 as stated: exportJiraIssues never returns more issues than
\* --max-results
ExportedWithinMaxResults ==
  exported # Null => Len(Val(exported)) <= maxResults

(***************************************************************************)
(* ghApiPaginated on its own: the remote list and maxPages are drawn in    *)
(* the initial state, one action applies the function.                     *)
(***************************************************************************)
\* the longest remote list (two full pages and a short one)
MaxItems == 250

\* the largest maxPages
MaxPageCap == 3

PageInputs ==
  [items : {IdSeq(n) : n \in 0..MaxItems}, maxPages : 1..MaxPageCap]

InitPage ==
  /\ MainIdle
  /\ BatchIdle
  /\ RetryIdle
  /\ JiraIdle
  /\ CycleIdle
  /\ AiIdle
  /\ pIn \in PageInputs
  /\ pOut = Null

CallGhApiPaginated ==
  /\ pOut = Null
  /\ pOut' = Some(PaginatedCall(pIn.items, pIn.maxPages))
  /\ UNCHANGED <<pIn, mainVars, batchVars, retryVars, jiraVars, cycleVars, aiVars>>

NextPage == CallGhApiPaginated

SpecPage == InitPage /\ [][NextPage]_vars

\* the concatenation of the pages 1..k of the list, in page order
RECURSIVE PagesConcat(_, _)
PagesConcat(items, k) ==
  IF k = 0 THEN <<>> ELSE PagesConcat(items, k - 1) \o PageOf(items, k)

\* C20: a call of ghApiPaginated requests the pages 1, 2, ... in order, at
\* most maxPages of them, none after the first page that holds fewer than
\* 100 items, and returns the pages it requested, concatenated in page order
PagesInOrderUntilShortPage ==
  pOut # Null =>
    LET requests == Val(pOut).requests
        k == Len(requests)
    IN /\ \A i \in 1..k : requests[i] = i
       /\ k >= 1
       /\ k <= pIn.maxPages
       /\ \A i \in 1..(k - 1) : Len(PageOf(pIn.items, i)) = perPage
       /\ (k < pIn.maxPages) => Len(PageOf(pIn.items, k)) < perPage
       /\ Val(pOut).results = PagesConcat(pIn.items, k)

\* a call that got a full first page and stopped at a short second one
\* with a page to spare
PagesInOrderUntilShortPageWitness ==
  /\ pOut # Null
  /\ Val(pOut).requests = <<1, 2>>
  /\ Len(Val(pOut).results) = 137
  /\ pIn.maxPages = 3

(***************************************************************************)
(* Properties of the cursor-paginated loops.                               *)
(***************************************************************************)
\* C21 as stated: the loop of exportJiraIssues over nextPageToken ends after
\* finitely many requests, whatever the successful responses are
JiraCursorLoopEnds == <>(jpc # "fetch")

\* C29: the first request of exportJiraIssues carries no page token, every
\* later request carries the token of the response just before it, and no
\* request follows a response without a token
JiraTokenCarriedForward ==
  /\ jiraRequests # <<>> => jiraRequests[1].sent = Undefined
  /\ \A i \in 1..(Len(jiraRequests) - 1) :
       /\ jiraRequests[i].got \notin {Undefined, Raised}
       /\ jiraRequests[i + 1].sent = jiraRequests[i].got
  /\ (jpc = "fetch" /\ jiraRequests # <<>>) => nextPageToken # Undefined

\* three requests were made: the second carried the token of the first
\* response, the third the token of the second, and the third response held
\* no token
JiraTokenCarriedForwardWitness ==
  /\ Len(jiraRequests) = 3
  /\ jiraRequests[1].got = Some("tokA")
  /\ jiraRequests[2].sent = Some("tokA")
  /\ jiraRequests[2].got = Some("tokB")
  /\ jiraRequests[3].sent = Some("tokB")
  /\ jiraRequests[3].got = Undefined
  /\ jpc = "process"

\* C22 as stated: every nullable field of every issue of a written Jira
\* snapshot is present as a key (holding a value or an explicit null)
NullableFieldsWritten ==
  jiraOutputFile # Null =>
    \A i \in 1..Len(Val(jiraOutputFile).issues) :
      JiraNullableFields \subseteq DOMAIN Val(jiraOutputFile).issues[i]

\* C23 as stated: the cycleTimeHours of an exported Jira issue is null exactly
\* when the issue has no terminal timestamp (closedAt and resolvedAt both
\* without a value)
CycleTimeNullIffNoTerminalTimestamp ==
  exported # Null =>
    \A i \in 1..Len(Val(exported)) :
      LET r == Val(exported)[i]
      IN r.cycleTimeHours = Null <=>
           (r.closedAt = Null /\ r.resolvedAt \in {Null, Undefined})

(***************************************************************************)
(* calculateCycleTimeHours on its own: the two timestamps are drawn in the *)
(* initial state, one action applies the function.                         *)
(***************************************************************************)
\* the timestamps of the calls
CycleDates ==
  {"2024-02-29T23:59:59Z", "2024-12-31T00:00:00Z", "2025-01-01T00:00:00Z",
   "2025-01-01T08:20:00Z", "2025-01-02", "2025-01-02T12:00:00Z",
   "2025-01-03T00:10:00Z", "2025-03-01T00:00:00Z"}

InitCycle ==
  /\ MainIdle
  /\ BatchIdle
  /\ RetryIdle
  /\ PageIdle
  /\ JiraIdle
  /\ AiIdle
  /\ cIn \in [start : CycleDates, end : {Null} \cup {Some(d) : d \in CycleDates}]
  /\ cOut = Undefined

CallCalculateCycleTimeHours ==
  /\ cOut = Undefined
  /\ cOut' = calculateCycleTimeHours(cIn.start, cIn.end)
  /\ UNCHANGED <<cIn, mainVars, batchVars, retryVars, pageVars, jiraVars, aiVars>>

NextCycle == CallCalculateCycleTimeHours

SpecCycle == InitCycle /\ [][NextCycle]_vars

BatchNumbers == 0..((Len(bIn.prNumbers) - 1) \div batchSize)

\* the identifiers that were fetched individually
FetchedIndividually ==
  {Val(bOut).log[i][2] : i \in {j \in 1..Len(Val(bOut).log) :
                                   Val(bOut).log[j][1] = "single"}}

\* the identifiers of batch b that its batched request gave no result for
Lacking(b) ==
  IF b \in bIn.orc.batchFail THEN BatchIds(b)
  ELSE BatchIds(b) \cap bIn.orc.missing

\* C25 as stated: the identifiers a batched request gave no result for,
\* because it failed or because its response lacks their data, are fetched
\* individually, no identifier of a batch without such a failure is, and what
\* the other batches obtained stays in the result map
BatchFailureFetchedIndividually ==
  bOut # Null =>
    \A b \in BatchNumbers :
      /\ Lacking(b) \subseteq FetchedIndividually
      /\ Lacking(b) = {} => BatchIds(b) \cap FetchedIndividually = {}
      /\ BatchIds(b) \ Lacking(b) \subseteq DOMAIN Val(bOut).results

(***************************************************************************)
(* Properties of the outcome of one call of ghApi or jiraApi.              *)
(***************************************************************************)
\* the execution e of the remote command succeeded: the command ran, the
\* host answered 200 with a body that parses and reports no error
AttemptSucceeded(e) ==
  IF api = "gh" THEN e.ok /\ e.json /\ e.status = 200
  ELSE e.curl = "ok" /\ e.status = 200 /\ e.json /\ ~e.apiErr

NotFoundRaisedAtOnce ==
  api = "gh" =>
    \A i \in 1..Len(outcomes) :
      (~outcomes[i].ok /\ outcomes[i].status = 404) =>
        /\ i = Len(outcomes)
        /\ apc = "raised"
        /\ result = Some("NotFound")
        /\ \A k \in 1..Len(sleeps) : sleeps[k].attempt # i

\* the second of three attempts came back with a 404 that also names a rate
\* limit: the call raised "Not found" after the one wait of the first attempt
NotFoundRaisedAtOnceWitness ==
  /\ api = "gh"
  /\ retries = 3
  /\ Len(outcomes) = 2
  /\ outcomes[2] = GhResp(FALSE, TRUE, 404, FALSE, TRUE)
  /\ apc = "raised"
  /\ result = Some("NotFound")
  /\ Len(sleeps) = 1

\* the batched requests of the call, in the order they were issued
BatchedRequests ==
  LET batched(entry) == entry[1] = "batch"
      sent == SelectSeq(Val(bOut).log, batched)
  IN [k \in 1..Len(sent) |-> sent[k][2]]

RECURSIVE Concat(_)
Concat(seqs) == IF seqs = <<>> THEN <<>> ELSE Head(seqs) \o Concat(Tail(seqs))

FallbackCommitsExportedWithNullStats ==
  (pc = "commits" /\ stepFault # Null /\ Val(stepFault).at = "details") =>
    /\ \A i \in 1..Len(unit.prCommits) :
         unit.prCommits[i].additions = Null /\ unit.prCommits[i].deletions = Null
    /\ \A p \in unit.detailShas :
         ( /\ \E j \in 1..Len(unit.prs) : unit.prs[j].externalId = String(p[1])
           /\ ~(RemoteCommit(p[2]).author # Null /\ isBot(Val(RemoteCommit(p[2]).author))) )
         => \E i \in 1..Len(unit.prCommits) :
              /\ unit.prCommits[i].sha = p[2]
              /\ unit.prCommits[i].prExternalId = Some(String(p[1]))

\* the batched request of the unit failed and the commits of its pull
\* requests came in through the individual fetches, without stats
FallbackCommitsExportedWithNullStatsWitness ==
  /\ pc = "commits"
  /\ stepFault # Null
  /\ Val(stepFault).at = "details"
  /\ Len(unit.prCommits) >= 2
  /\ unit.prCommits[1].additions = Null
  /\ unit.prCommits[1].deletions = Null

(***************************************************************************)
(* detectAiTool on its own: the message is drawn in the initial state, one *)
(* action applies the function.                                            *)
(***************************************************************************)
\* the most fragments of a message (one keyword of each of the four rules)
MaxFragments == 4

Fragments ==
  {"fix bug ", "Cursor: ", "Generated by Cursor ", "Copilot ", "co-pilot ",
   "Claude-3.5 ", "Anthropic ", "ChatGPT ", "GPT-4o "}

\* the messages: up to MaxFragments distinct fragments, in any order
Messages ==
  UNION { {m \in [1..n -> Fragments] : \A i, j \in 1..n : i # j => m[i] # m[j]} :
          n \in 0..MaxFragments }

InitAi ==
  /\ MainIdle
  /\ BatchIdle
  /\ RetryIdle
  /\ PageIdle
  /\ JiraIdle
  /\ CycleIdle
  /\ dIn \in Messages
  /\ dOut = Null

CallDetectAiTool ==
  /\ dOut = Null
  /\ dOut' = Some(detectAiTool(MessageChars(dIn)))
  /\ UNCHANGED <<dIn, mainVars, batchVars, retryVars, pageVars, jiraVars, cycleVars>>

NextAi == CallDetectAiTool

SpecAi == InitAi /\ [][NextAi]_vars

\* the message holds one of the given fragments
Holds(fs) == Range(dIn) \cap fs # {}

\* the tool of the first rule, in the order Cursor, GitHub Copilot, Claude,
\* ChatGPT, of which the message holds a keyword
FirstRuleTool ==
  IF Holds({"Cursor: ", "Generated by Cursor "}) THEN Some("Cursor")
  ELSE IF Holds({"Copilot ", "co-pilot "}) THEN Some("GitHub Copilot")
  ELSE IF Holds({"Claude-3.5 ", "Anthropic "}) THEN Some("Claude")
  ELSE IF Holds({"ChatGPT ", "GPT-4o "}) THEN Some("ChatGPT")
  ELSE Null

\* C31: detectAiTool returns the tool of the first rule, in the order Cursor,
\* GitHub Copilot, Claude, ChatGPT, whose keyword occurs in the message; no
\* match gives isAiAssisted = false with tool and model null, and
\* isAiAssisted is true exactly when tool is not null
FirstMatchingRuleWins ==
  dOut # Null =>
    /\ Val(dOut).tool = FirstRuleTool
    /\ Val(dOut).isAiAssisted <=> Val(dOut).tool # Null
    /\ FirstRuleTool = Null => ~Val(dOut).isAiAssisted /\ Val(dOut).model = Null

\* a message with a keyword of each rule, the ChatGPT one first and the
\* Cursor one last, was found to be Cursor's
FirstMatchingRuleWinsWitness ==
  /\ dIn = <<"GPT-4o ", "Claude-3.5 ", "co-pilot ", "Cursor: ">>
  /\ dOut = Some([isAiAssisted |-> TRUE, tool |-> Some("Cursor"), model |-> Null])

(***************************************************************************)
(* Properties of the accumulated collections.                              *)
(***************************************************************************)
\* b is a with records appended: nothing of a is removed, moved or changed
Extends(a, b) == Len(a) <= Len(b) /\ SubSeq(b, 1, Len(a)) = a

\* C32: within one run every step leaves the records already in
\* allPullRequests, allCommits, allIssues and allReviews where and as they were
AccumulatorsOnlyAppended ==
  [][run' = run =>
       /\ Extends(allPullRequests, allPullRequests')
       /\ Extends(allCommits, allCommits')
       /\ Extends(allIssues, allIssues')
       /\ Extends(allReviews, allReviews')]_vars

\* a second unit has been appended after a first one that had contributed
\* pull requests and commits, with the externalId prefix rewrite in effect
AccumulatorsOnlyAppendedWitness ==
  /\ Len(hist) = 2
  /\ hist[1].prefix # Null
  /\ hist[1].commits # <<>>
  /\ hist[2].commits # <<>>
  /\ Len(allCommits) = Len(hist[1].commits) + Len(hist[2].commits)
  /\ Len(allPullRequests) >= 2

\* the shas of the pull-request commits of the current unit
SeenShasOfUnit == {unit.prCommits[i].sha : i \in 1..Len(unit.prCommits)}

\* the shas of the commits of unit k that are attributed to a pull request
AttributedShas(k) ==
  {hist[k].commits[i].sha : i \in {j \in 1..Len(hist[k].commits) :
                                     hist[k].commits[j].prExternalId # Null}}

\* the shas of the commits of unit k that are not
DirectShas(k) ==
  {hist[k].commits[i].sha : i \in {j \in 1..Len(hist[k].commits) :
                                     hist[k].commits[j].prExternalId = Null}}

\* C33: the commits a unit exports from the repository-wide listing are the
\* listed commits, bots aside, whose sha is not among the pull-request
\* commits exported for that same unit, whatever the other units of the run
\* captured; the pull-request commits are all there when the listing is
\* filtered
ListingFilteredByOwnUnitShas ==
  /\ \A k \in 1..Len(hist) :
       DirectShas(k) = {sha \in hist[k].listed :
                          /\ sha \notin AttributedShas(k)
                          /\ ~NullableIsBot(RemoteCommit(sha).author)}
  /\ pc = "issues" =>
       /\ SubSeq(unit.commits, 1, Len(unit.prCommits)) = unit.prCommits
       /\ \A i \in (Len(unit.prCommits) + 1)..Len(unit.commits) :
            /\ unit.commits[i].prExternalId = Null
            /\ unit.commits[i].sha \notin SeenShasOfUnit

\* ownerB/svc exported s3 under its pull request 7, and the later unit
\* ownerA/svc, where s3 belongs to a skipped pull request, exported s3 from
\* its listing
ListingFilteredByOwnUnitShasWitness ==
  /\ Len(hist) = 2
  /\ hist[1].owner = "ownerB" /\ hist[1].repo = "svc"
  /\ "s3" \in AttributedShas(1)
  /\ hist[2].owner = "ownerA" /\ hist[2].repo = "svc"
  /\ "s3" \in DirectShas(2)

\* C34 as stated: the reviewsCount of every pull request of the snapshot is
\* the number of the snapshot's reviews that refer to it
ReviewsCountMatchesReviews ==
  Written =>
    \A i \in 1..Len(Snapshot.pullRequests) :
      Snapshot.pullRequests[i].reviewsCount =
        Cardinality({j \in 1..Len(Snapshot.reviews) :
                       Snapshot.reviews[j].prExternalId =
                         Snapshot.pullRequests[i].externalId})

\* C35 as stated: no two entries of the snapshot's commits have the same sha
NoTwoCommitsWithSameSha ==
  Written =>
    \A i, j \in 1..Len(Snapshot.commits) :
      i # j => Snapshot.commits[i].sha # Snapshot.commits[j].sha

(***************************************************************************)
(* Properties of the write of the output file.                             *)
(***************************************************************************)
\* the units of the run: the repos of every owner of the command line
UnitsOfRun ==
  UNION { IF cfg.singleRepo # Null THEN {<<cfg.owners[k], Val(cfg.singleRepo)>>}
          ELSE {<<cfg.owners[k], r>> : r \in Range(fetchAllRepos(cfg.owners[k], "org").names)} :
          k \in 1..Len(cfg.owners) }

\* C36: the output file changes only in the step that ends the run after the
\* contributors are resolved, when every unit has been processed or skipped
\* and the file has not been written before; no other step writes or changes
\* it, and a run that a failing call aborted leaves it unwritten
OutputWrittenOnceAtEnd ==
  [][/\ outputFile' # outputFile =>
          /\ outputFile = Null
          /\ pc = "contributors"
          /\ pc' = "exited"
          /\ UnitsOfRun \subseteq Range(done) \cup skipped
          /\ Val(outputFile').pullRequests = allPullRequests
          /\ Val(outputFile').commits = allCommits
     /\ (pc' = "exited" /\ caught' # Null /\ Val(caught').at # "summary") =>
          outputFile' = Null]_vars

\* the file was written after two units were processed and one was skipped
OutputWrittenOnceAtEndWitness ==
  /\ Written
  /\ Len(done) = 2
  /\ skipped # {}
  /\ pc = "exited"

\* C37 as stated: no wait of a call of ghApi or jiraApi follows its final
\* attempt: every wait follows one of the attempts 1..retries-1
NoWaitAfterFinalAttempt ==
  \A k \in 1..Len(sleeps) : sleeps[k].attempt < retries

\* the states mapJiraState can produce
JiraStates == {"open", "in_progress", "resolved"}

\* C38: an exported Jira issue has a closedAt exactly when its state is
\* "resolved" or "closed", and its state is one of open, in_progress,
\* resolved
JiraClosedAtIffResolved ==
  exported # Null =>
    \A i \in 1..Len(Val(exported)) :
      LET r == Val(exported)[i]
      IN /\ r.state \in JiraStates
         /\ r.closedAt \notin {Null, Undefined} <=> r.state \in {"resolved", "closed"}

\* the first page held a resolved issue with a resolution date, a done issue
\* without one and issues of the other categories
JiraClosedAtIffResolvedWitness ==
  /\ exported # Null
  /\ Len(Val(exported)) >= 8
  /\ Val(exported)[2].state = "resolved"
  /\ Val(exported)[2].closedAt = Some("2025-01-02T12:00:00Z")
  /\ Val(exported)[6].state = "resolved"
  /\ Val(exported)[6].closedAt = Some("2025-01-03T00:10:00Z")
  /\ Val(exported)[1].state = "in_progress"
  /\ Val(exported)[1].closedAt = Null

====
